---- MODULE Spec2Model ----
(***************************************************************************)
(* InfographAI (src/App.tsx): the CSV tokenizer parseCSV, the CSV import    *)
(* handler handleCsvUpload, which maps the parsed rows to the presentation *)
(* outline of the application state, the generation handlers with the     *)
(* calls of the generation service they wait for, the outline editor, the  *)
(* image editor handleEditImage, handleSaveToDrive, and the Drive service  *)
(* with its sequential upload uploadImagesToDriveInFolder.                 *)
(*                                                                         *)
(* A JavaScript string is modelled as a sequence of one-character strings. *)
(***************************************************************************)
EXTENDS Integers, Sequences, FiniteSets, TLC

VARIABLES
    text,       \* the argument of a direct call of parseCSV
    rows,       \* the value that call returned
    called,     \* whether the call has returned
    csvFile,    \* the text of the file the user picks in the CSV file input
    csvReader,  \* readyState of the FileReader made by the last handleCsvUpload
    state,      \* the AppState held by useState (App.tsx:51)
    alertMsg,   \* the message of the alert() raised by the last callback, "" if none
    jobs,       \* the calls of the generation service that have not returned yet
    upload,     \* a call of uploadImagesToDriveInFolder
    drive,      \* the files of the Drive folder, in the order they were created
    local,      \* editInstruction, isEditing, isSavingToDrive, driveSaveStatus (App.tsx:53-56)
    save,       \* the run of handleSaveToDrive that has not returned yet
    google,     \* the Google side: client id configured, signed in, folders created
    now         \* Date.now(), counted in generation calls

vars == <<text, rows, called, csvFile, csvReader, state, alertMsg, jobs, upload, drive,
          local, save, google, now>>

----------------------------------------------------------------------------
(* Bounds of the model. *)

\* generation and edit calls whose images get a time stamp
MaxClock == 3

\* folders created in Drive
MaxFolders == 2

\* longest text handed to parseCSV directly
MaxLen == 6

\* largest number of fields in the CSV file handed to handleCsvUpload
MaxFields == 4

\* the largest number of images the user asks for in single-slide mode
MaxImages == 2

\* the largest number of pages of an outline returned by the outline request
MaxPages == 2

\* the largest number of images handed to uploadImagesToDriveInFolder
MaxFiles == 3

----------------------------------------------------------------------------
(* Characters. *)

QUOTE == "\""
COMMA == ","
CR == "\r"
LF == "\n"
SPACE == " "

\* text[i] of JavaScript: undefined beyond the end of the string
undefined == "undefined"

charAt(s, i) == IF i >= 1 /\ i <= Len(s) THEN s[i] ELSE undefined

----------------------------------------------------------------------------
(* parseCSV, App.tsx:100-137.  Indices are 1-based here, 0-based there.    *)

\* variant: a doubled quote is never taken as an escaped quote
IsEscapedQuoteNever(inQuote, nextChar) == FALSE

\* line 111: a quote inside a quoted span that is followed by a quote
IsEscapedQuote(inQuote, nextChar) == inQuote /\ nextChar = QUOTE

\* variant: a comma ends the field inside a quoted span too
IsFieldDelimiterInQuote(char, inQuote) == char = COMMA

\* line 117
IsFieldDelimiter(char, inQuote) == char = COMMA /\ ~inQuote

\* variant: a line break ends the row inside a quoted span too
IsRecordDelimiterInQuote(char, inQuote) == char = CR \/ char = LF

\* line 120
IsRecordDelimiter(char, inQuote) == (char = CR \/ char = LF) /\ ~inQuote

\* variant: the LF after a CR is not consumed with it
CrlfSkipNone(char, nextChar) == 0

\* line 121: the extra characters consumed by a record delimiter
CrlfSkip(char, nextChar) == IF char = CR /\ nextChar = LF THEN 1 ELSE 0

\* lines 122-125: the row is pushed after its last field was pushed
EndRow(rowsSoFar, currentRow, currentVal) ==
    LET row == Append(currentRow, currentVal)
    IN  IF Len(row) > 0 \/ currentVal # <<>> THEN Append(rowsSoFar, row) ELSE rowsSoFar

\* variant: the pending field is flushed even when nothing is pending
FlushAlways(rowsSoFar, currentRow, currentVal) ==
    Append(rowsSoFar, Append(currentRow, currentVal))

\* lines 132-136
Flush(rowsSoFar, currentRow, currentVal) ==
    IF currentVal # <<>> \/ Len(currentRow) > 0
    THEN Append(rowsSoFar, Append(currentRow, currentVal))
    ELSE rowsSoFar

\* lines 106-131: the scan from position i on
RECURSIVE parseCSVFrom(_, _, _, _, _, _)
parseCSVFrom(t, i, rowsSoFar, currentRow, currentVal, inQuote) ==
    IF i > Len(t) THEN Flush(rowsSoFar, currentRow, currentVal)
    ELSE LET char == t[i]
             nextChar == charAt(t, i + 1)
         IN  IF char = QUOTE
             THEN IF IsEscapedQuote(inQuote, nextChar)
                  THEN parseCSVFrom(t, i + 2, rowsSoFar, currentRow,
                                    Append(currentVal, QUOTE), inQuote)
                  ELSE parseCSVFrom(t, i + 1, rowsSoFar, currentRow, currentVal, ~inQuote)
             ELSE IF IsFieldDelimiter(char, inQuote)
             THEN parseCSVFrom(t, i + 1, rowsSoFar, Append(currentRow, currentVal),
                               <<>>, inQuote)
             ELSE IF IsRecordDelimiter(char, inQuote)
             THEN parseCSVFrom(t, i + 1 + CrlfSkip(char, nextChar),
                               EndRow(rowsSoFar, currentRow, currentVal),
                               <<>>, <<>>, inQuote)
             ELSE parseCSVFrom(t, i + 1, rowsSoFar, currentRow,
                               Append(currentVal, char), inQuote)

parseCSV(t) == parseCSVFrom(t, 1, <<>>, <<>>, <<>>, FALSE)

----------------------------------------------------------------------------
(* The state of a call of uploadImagesToDriveInFolder, before the call: images is  *)
(* the argument, calls the images uploadImageToDriveInFolder was called for,      *)
(* inFlight the 1-based index of the image whose upload is awaited (0 if none),   *)
(* results the local list of URLs, status where the call is, folderId the folder  *)
(* argument, targets the folder each call of uploadImageToDriveInFolder was given. *)

NoError == [name |-> "none", failure |-> "none"]

NoUpload ==
    [ images |-> <<>>,
      calls |-> <<>>,
      inFlight |-> 0,
      results |-> <<>>,
      status |-> "idle",
      error |-> NoError,
      folderId |-> 0,
      targets |-> <<>> ]

\* the local states of App before any callback
NoLocal ==
    [ editInstruction |-> <<>>,
      isEditing |-> FALSE,
      isSavingToDrive |-> FALSE,
      driveSaveStatus |-> <<>> ]

\* a Google side where nothing is configured
NoGoogle == [clientId |-> FALSE, signedIn |-> FALSE, folders |-> 0]

----------------------------------------------------------------------------
(* The application state, App.tsx:34-48. *)

\* null as an image id
NULL_ID == <<"null">>

INITIAL_STATE ==
    [ mode |-> "SINGLE",
      step |-> 1,
      prompt |-> <<>>,
      complexity |-> "STANDARD",
      stylePreferences |-> <<>>,
      imageCount |-> 2,
      generatedImages |-> <<>>,
      selectedImageId |-> NULL_ID,
      isGenerating |-> FALSE,
      aiSuggestions |-> <<>>,
      referenceImage |-> "null",
      presentationOutline |-> <<>>,
      isAnimationMode |-> FALSE ]

\* no run of handleSaveToDrive: pc is the call the run awaits, closure the state
\* of the render the handler was made in, folderId what createFolderInDrive
\* returned (0 before), calls the calls of the Drive service the handler made,
\* error the error its catch block caught (the failure it comes from and its
\* message), shown the message its alert shows for it
NoSave ==
    [ pc |-> "idle",
      closure |-> INITIAL_STATE,
      folderId |-> 0,
      calls |-> <<>>,
      error |-> [failure |-> "none", message |-> <<>>],
      shown |-> <<>> ]

----------------------------------------------------------------------------
(* Direct calls of parseCSV: a text of up to MaxLen characters of            *)
(* ParseAlphabet is written, then parseCSV is called on it.                *)

ParseAlphabet == {"a", COMMA, QUOTE, CR, LF}

InitParse ==
    /\ text = <<>>
    /\ rows = <<>>
    /\ called = FALSE
    /\ csvFile = <<>>
    /\ csvReader = "EMPTY"
    /\ state = INITIAL_STATE
    /\ alertMsg = ""
    /\ jobs = <<>>
    /\ local = NoLocal
    /\ save = NoSave
    /\ google = NoGoogle
    /\ now = 0
    /\ upload = NoUpload
    /\ drive = <<>>

\* the caller extends the argument by one character
WriteText ==
    /\ ~called
    /\ Len(text) < MaxLen
    /\ \E c \in ParseAlphabet : text' = Append(text, c)
    /\ UNCHANGED <<rows, called, csvFile, csvReader, state, alertMsg, jobs, upload, drive,
                 local, save, google, now>>

CallParseCSV ==
    /\ ~called
    /\ rows' = parseCSV(text)
    /\ called' = TRUE
    /\ UNCHANGED <<text, csvFile, csvReader, state, alertMsg, jobs, upload, drive,
                 local, save, google, now>>

NextParse == WriteText \/ CallParseCSV

SpecParse == InitParse /\ [][NextParse]_vars

----------------------------------------------------------------------------
(* JavaScript string operations used by handleCsvUpload. *)

\* a JavaScript number: NaN, or an integer value
NaN == [isNaN |-> TRUE, value |-> 0]

Number(n) == [isNaN |-> FALSE, value |-> n]

Digits == {"0", "1", "2", "3", "4", "5", "6", "7", "8", "9"}

DigitValue(c) ==
    CASE c = "0" -> 0 [] c = "1" -> 1 [] c = "2" -> 2 [] c = "3" -> 3 [] c = "4" -> 4
      [] c = "5" -> 5 [] c = "6" -> 6 [] c = "7" -> 7 [] c = "8" -> 8 [] c = "9" -> 9

\* the white space that String.prototype.trim and parseInt strip
WhiteSpace == {SPACE, "\t", CR, LF}

\* String.prototype.toLowerCase on the letters of the model's alphabet
LowerOf(c) ==
    CASE c = "N" -> "n" [] c = "S" -> "s" [] c = "T" -> "t" [] OTHER -> c

toLowerCase(s) == [i \in 1..Len(s) |-> LowerOf(s[i])]

\* String.prototype.includes
includes(s, sub) ==
    \E i \in 0..(Len(s) - Len(sub)) : SubSeq(s, i + 1, i + Len(sub)) = sub

\* String.prototype.trim
trim(s) ==
    LET keep == {i \in 1..Len(s) : s[i] \notin WhiteSpace}
    IN  IF keep = {} THEN <<>>
        ELSE SubSeq(s, CHOOSE i \in keep : \A j \in keep : i <= j,
                       CHOOSE i \in keep : \A j \in keep : i >= j)

\* the value of a sequence of decimal digits
RECURSIVE DecimalValue(_)
DecimalValue(ds) ==
    IF ds = <<>> THEN 0
    ELSE 10 * DecimalValue(SubSeq(ds, 1, Len(ds) - 1)) + DigitValue(ds[Len(ds)])

\* parseInt(s) in radix 10: leading white space, an optional sign, the longest run of
\* digits; NaN without a digit
parseInt(s) ==
    LET black == {i \in 1..Len(s) : s[i] \notin WhiteSpace}
        from == IF black = {} THEN Len(s) + 1 ELSE CHOOSE i \in black : \A j \in black : i <= j
        signed == charAt(s, from) \in {"+", "-"}
        first == IF signed THEN from + 1 ELSE from
        stops == {i \in first..(Len(s) + 1) : charAt(s, i) \notin Digits}
        stop == CHOOSE i \in stops : \A j \in stops : i <= j
        magnitude == DecimalValue(SubSeq(s, first, stop - 1))
    IN  IF stop = first THEN NaN
        ELSE IF charAt(s, from) = "-" THEN Number(0 - magnitude) ELSE Number(magnitude)

\* a || b for a JavaScript number a and an integer b: NaN and 0 are falsy
OrElse(a, b) == IF a.isNaN \/ a.value = 0 THEN b ELSE a.value

----------------------------------------------------------------------------
(* handleCsvUpload, App.tsx:152-225. *)

\* the katakana of the markers of line 169, one name per character
SURAIDO == <<"KATAKANA_SU", "KATAKANA_RA", "KATAKANA_I", "KATAKANA_DO">>
TAITORU == <<"KATAKANA_TA", "KATAKANA_I", "KATAKANA_TO", "KATAKANA_RU">>
SLIDE_LOWER == <<"s", "l", "i", "d", "e">>
TITLE_LOWER == <<"t", "i", "t", "l", "e">>

ALERT_NO_VALID_DATA == "CSV_NO_VALID_DATA"
ALERT_CSV_READ_FAILED == "CSV_READ_FAILED"

\* line 169 evaluates header[1] only when header[0] holds no marker; header[1] of a row
\* with one field is undefined and .includes on it throws a TypeError
firstFieldIsMarked(header) ==
    includes(header[1], SURAIDO) \/ includes(header[1], SLIDE_LOWER)

headerThrows(csvRows) ==
    LET header == [i \in 1..Len(csvRows[1]) |-> toLowerCase(csvRows[1][i])]
    IN  ~firstFieldIsMarked(header) /\ Len(header) < 2

\* lines 167-171
startIndex(csvRows) ==
    LET header == [i \in 1..Len(csvRows[1]) |-> toLowerCase(csvRows[1][i])]
    IN  IF firstFieldIsMarked(header)
           \/ includes(header[2], TAITORU) \/ includes(header[2], TITLE_LOWER)
        THEN 1 ELSE 0

\* variant: the page number is always positional
pageNumPositional(cols, accepted) == accepted + 1

\* lines 180, 184-185
pageNumOf(cols, accepted) ==
    IF Len(cols) >= 3 THEN OrElse(parseInt(cols[1]), accepted + 1) ELSE accepted + 1

\* variant: the title is always taken from the second field
titleOfSecond(cols) == IF Len(cols) >= 2 THEN cols[2] ELSE <<>>

\* lines 181, 186, 189
titleOf(cols) ==
    IF Len(cols) >= 3 THEN cols[2]
    ELSE IF Len(cols) = 2 THEN cols[1]
    ELSE <<>>

\* lines 182, 187, 190, 192
contentOf(cols) ==
    IF Len(cols) >= 3 THEN cols[3]
    ELSE IF Len(cols) = 2 THEN cols[2]
    ELSE IF Len(cols) = 1 THEN cols[1]
    ELSE <<>>

\* line 195: title || content, before either is trimmed
isAccepted(cols) == titleOf(cols) # <<>> \/ contentOf(cols) # <<>>

\* lines 196-203
pageOf(cols, accepted) ==
    [ pageNumber |-> pageNumOf(cols, accepted),
      title |-> trim(titleOf(cols)),
      content |-> trim(contentOf(cols)),
      visualCue |-> <<>>,
      emphasis |-> <<>>,
      mood |-> <<>> ]

\* variant: a page is numbered by the index of its row instead of by the number of
\* pages accepted before it
RECURSIVE buildOutlineByRowIndex(_, _, _)
buildOutlineByRowIndex(csvRows, i, newOutline) ==
    IF i >= Len(csvRows) THEN newOutline
    ELSE LET cols == csvRows[i + 1]
         IN  buildOutlineByRowIndex(csvRows, i + 1,
                                    IF isAccepted(cols)
                                    THEN Append(newOutline, pageOf(cols, i))
                                    ELSE newOutline)

\* variant: an accepted page is put in front of the pages accepted before it
RECURSIVE buildOutlineNewestFirst(_, _, _)
buildOutlineNewestFirst(csvRows, i, newOutline) ==
    IF i >= Len(csvRows) THEN newOutline
    ELSE LET cols == csvRows[i + 1]
         IN  buildOutlineNewestFirst(csvRows, i + 1,
                                     IF isAccepted(cols)
                                     THEN <<pageOf(cols, Len(newOutline))>> \o newOutline
                                     ELSE newOutline)

\* lines 175-205, from the row at 0-based index i on
RECURSIVE buildOutline(_, _, _)
buildOutline(csvRows, i, newOutline) ==
    IF i >= Len(csvRows) THEN newOutline
    ELSE LET cols == csvRows[i + 1]
         IN  buildOutline(csvRows, i + 1,
                          IF isAccepted(cols)
                          THEN Append(newOutline, pageOf(cols, Len(newOutline)))
                          ELSE newOutline)

\* variant: the outline is installed before its length is tested
onloadResultInstallsFirst(t, prev) ==
    IF t = <<>> THEN [state |-> prev, alert |-> ""]
    ELSE LET csvRows == parseCSV(t)
         IN  IF Len(csvRows) = 0 THEN [state |-> prev, alert |-> ""]
             ELSE IF headerThrows(csvRows)
             THEN [state |-> prev, alert |-> ALERT_CSV_READ_FAILED]
             ELSE LET newOutline == buildOutline(csvRows, startIndex(csvRows), <<>>)
                  IN  [state |-> [prev EXCEPT !.presentationOutline = newOutline,
                                              !.imageCount = Len(newOutline),
                                              !.step = 2],
                       alert |-> IF Len(newOutline) > 0 THEN "" ELSE ALERT_NO_VALID_DATA]

\* variant: the imported pages are added to the outline that is there
onloadResultAppending(t, prev) ==
    IF t = <<>> THEN [state |-> prev, alert |-> ""]
    ELSE LET csvRows == parseCSV(t)
         IN  IF Len(csvRows) = 0 THEN [state |-> prev, alert |-> ""]
             ELSE IF headerThrows(csvRows)
             THEN [state |-> prev, alert |-> ALERT_CSV_READ_FAILED]
             ELSE LET newOutline == buildOutline(csvRows, startIndex(csvRows), <<>>)
                  IN  IF Len(newOutline) > 0
                      THEN [state |-> [prev EXCEPT
                                          !.presentationOutline =
                                              prev.presentationOutline \o newOutline,
                                          !.imageCount = Len(newOutline),
                                          !.step = 2],
                            alert |-> ""]
                      ELSE [state |-> prev, alert |-> ALERT_NO_VALID_DATA]

\* lines 157-221: the state and the alert that reader.onload leaves for the file text t
onloadResult(t, prev) ==
    IF t = <<>> THEN [state |-> prev, alert |-> ""]
    ELSE LET csvRows == parseCSV(t)
         IN  IF Len(csvRows) = 0 THEN [state |-> prev, alert |-> ""]
             ELSE IF headerThrows(csvRows)
             THEN [state |-> prev, alert |-> ALERT_CSV_READ_FAILED]
             ELSE LET newOutline == buildOutline(csvRows, startIndex(csvRows), <<>>)
                  IN  IF Len(newOutline) > 0
                      THEN [state |-> [prev EXCEPT !.presentationOutline = newOutline,
                                                   !.imageCount = Len(newOutline),
                                                   !.step = 2],
                            alert |-> ""]
                      ELSE [state |-> prev, alert |-> ALERT_NO_VALID_DATA]

----------------------------------------------------------------------------
(* The CSV files of the model: up to MaxFields fields, separated by commas and    *)
(* line feeds.  The first field of a row is drawn from Col0Fields, the others     *)
(* from OtherFields; the first two fields of the first row may also be a header   *)
(* word, and the first field of the file may be a quoted empty value.  The file   *)
(* is written field by field before it is picked.                                 *)

Col0Fields == {<<>>, <<SPACE>>, <<"a">>, <<"5">>, <<"-", "3">>, <<"0">>}

OtherFields == {<<>>, <<SPACE>>, <<"a">>, <<SPACE, "a", SPACE>>}

HeaderCol0Fields ==
    Col0Fields \cup {<<"N", "o">>, <<"S", "l", "i", "d", "e">>, SURAIDO, <<QUOTE, QUOTE>>}

HeaderCol1Fields == OtherFields \cup {<<"T", "i", "t", "l", "e">>, TAITORU}

\* the separators written so far; no field of the model holds one
SeparatorsIn(t) == {i \in 1..Len(t) : t[i] \in {COMMA, LF}}

\* the fields that may follow the separator sep in the file t
FieldsAfter(t, sep) ==
    IF sep = LF THEN Col0Fields
    ELSE IF SeparatorsIn(t) = {} THEN HeaderCol1Fields
    ELSE OtherFields

InitCsv ==
    /\ csvFile \in HeaderCol0Fields
    /\ csvReader = "EMPTY"
    /\ state = INITIAL_STATE
    /\ alertMsg = ""
    /\ text = <<>>
    /\ rows = <<>>
    /\ called = FALSE
    /\ jobs = <<>>
    /\ local = NoLocal
    /\ save = NoSave
    /\ google = NoGoogle
    /\ now = 0
    /\ upload = NoUpload
    /\ drive = <<>>

\* the author of the file adds a separator and a field
WriteCsvField ==
    /\ csvReader = "EMPTY"
    /\ Cardinality(SeparatorsIn(csvFile)) + 1 < MaxFields
    /\ \E sep \in {COMMA, LF} :
        \E f \in FieldsAfter(csvFile, sep) :
            csvFile' = csvFile \o <<sep>> \o f
    /\ UNCHANGED <<csvReader, state, alertMsg, text, rows, called, jobs, upload, drive,
                 local, save, google, now>>

\* handleCsvUpload, lines 152-156 and 222: without a file nothing happens, with a file
\* a FileReader starts reading it.  Reads are modelled one at a time.
HandleCsvUpload ==
    /\ csvReader # "LOADING"
    /\ \E hasFile \in BOOLEAN :
        /\ csvReader' = IF hasFile THEN "LOADING" ELSE csvReader
        /\ alertMsg' = IF hasFile THEN "" ELSE alertMsg
    /\ UNCHANGED <<csvFile, state, text, rows, called, jobs, upload, drive,
                 local, save, google, now>>

\* reader.onload, lines 157-221
CsvOnload ==
    /\ csvReader = "LOADING"
    /\ csvReader' = "DONE"
    /\ LET result == onloadResult(csvFile, state)
       IN  /\ state' = result.state
           /\ alertMsg' = result.alert
    /\ UNCHANGED <<csvFile, text, rows, called, jobs, upload, drive,
                 local, save, google, now>>

NextCsv == WriteCsvField \/ HandleCsvUpload \/ CsvOnload

SpecCsv == InitCsv /\ [][NextCsv]_vars

----------------------------------------------------------------------------
(* The generation service (geminiService) and the handlers that call it.          *)
(* A call in flight is a record of jobs: kind is the handler that made it, made   *)
(* the image each of its requests returns if it succeeds with image data, results *)
(* what each request has settled to, images the value generateInfographics        *)
(* returned, response what the outline request has settled to.                    *)

ALERT_GENERATE_FAILED == "GENERATE_FAILED"
ALERT_OUTLINE_FAILED == "OUTLINE_FAILED"
ALERT_DECK_FAILED == "DECK_FAILED"

\* generateSuggestions: the list parsed from the response, the list returned for a
\* response without text, or the list returned by its catch block
SUGGESTIONS == <<"suggestion">>
DEFAULT_SUGGESTIONS == <<"default">>
FALLBACK_SUGGESTIONS == <<"fallback">>

SINGLE == "SINGLE"
PRESENTATION == "PRESENTATION"

\* the image of request index (0-based) of generateInfographics; in animation mode
\* the prompt of a request names its step.  Date.now() in the id is the stamp of the
\* call: the images of one call differ by index, those of two calls by stamp.
imageOfRequest(prompt, index, count, isAnimationMode, stamp) ==
    [ id |-> <<"gen", stamp, index>>,
      url |-> "data",
      promptUsed |-> IF isAnimationMode THEN <<prompt, index + 1, count>> ELSE <<prompt>> ]

\* the image generatePresentationPageImage returns for a page; Date.now() in the id
\* is the stamp of the call of handleGenerateDeck
imageOfPage(page, stamp) ==
    [id |-> <<"pres-page", page.pageNumber, stamp>>, url |-> "data", promptUsed |-> page]

\* what happens to an image request: the response holds image data, holds none, or
\* the request fails
Outcomes == {"image", "noImage", "error"}

\* what the promise of the request resolves to: the catch block and the fall-through
\* both return null
resolvedTo(outcome) == IF outcome = "image" THEN "image" ELSE "null"

IsNull(result) == result = "null"

\* variant: one null result empties the whole list
filterNotNullAllOrNothing(made, results) ==
    IF \E i \in 1..Len(results) : IsNull(results[i]) THEN <<>> ELSE made

\* variant: the results are kept up to the first null
filterNotNullPrefix(made, results) ==
    LET firstNull == IF \E i \in 1..Len(results) : IsNull(results[i])
                     THEN CHOOSE i \in 1..Len(results) :
                              /\ IsNull(results[i])
                              /\ \A j \in 1..(i - 1) : ~IsNull(results[j])
                     ELSE Len(results) + 1
    IN  SubSeq(made, 1, firstNull - 1)

\* results.filter(img => img !== null) on the settled results
filterNotNull(made, results) ==
    LET keep[i \in 0..Len(results)] ==
            IF i = 0 THEN <<>>
            ELSE IF IsNull(results[i]) THEN keep[i - 1]
            ELSE Append(keep[i - 1], made[i])
    IN  keep[Len(results)]

\* a call of one of the kinds is in flight; the calls of one handler are modelled
\* one at a time
InFlight(kinds) == \E j \in 1..Len(jobs) : jobs[j].kind \in kinds

AllSettled(job) == \A i \in 1..Len(job.results) : job.results[i] # "pending"

NoResponse == [status |-> "none", value |-> <<>>]

RemoveAt(s, j) == SubSeq(s, 1, j - 1) \o SubSeq(s, j + 1, Len(s))

\* the outlines the outline request may return: k pages numbered from 1
AiPage(n) ==
    [ pageNumber |-> n,
      title |-> <<"t">>,
      content |-> <<"c">>,
      visualCue |-> <<"v">>,
      emphasis |-> <<"e">>,
      mood |-> <<"m">> ]

AiOutline(k) == [n \in 1..k |-> AiPage(n)]

\* what the generateContent request of generatePresentationOutline settles to: a
\* failure, a response without text, or the JSON text of an outline
OutlineResponses ==
    {[status |-> "error", value |-> <<>>], [status |-> "noText", value |-> <<>>]}
        \cup {[status |-> "json", value |-> AiOutline(k)] : k \in 1..MaxPages}

\* variant: a failed request gives the empty outline
outlineCallResultSwallow(response) ==
    [threw |-> FALSE, value |-> response.value]

\* generatePresentationOutline: the outline parsed from the response text, the empty
\* list for a response without text, and the error of a failed request thrown again
outlineCallResult(response) ==
    IF response.status = "error" THEN [threw |-> TRUE, value |-> <<>>]
    ELSE [threw |-> FALSE, value |-> response.value]

\* the CSV files picked in the application
AppCsvFiles ==
    { <<>>,
      <<"a">>,
      <<COMMA>>,
      <<"a", COMMA, "a">>,
      <<"a", COMMA, "a", LF, "5", COMMA, SPACE, "a", SPACE>> }

InitApp ==
    /\ state = INITIAL_STATE
    /\ alertMsg = ""
    /\ jobs = <<>>
    /\ local = NoLocal
    /\ save = NoSave
    /\ google = NoGoogle
    /\ now = 0
    /\ upload = NoUpload
    /\ drive = <<>>
    /\ csvFile = <<>>
    /\ csvReader = "EMPTY"
    /\ text = <<>>
    /\ rows = <<>>
    /\ called = FALSE

\* switchMode
SwitchMode ==
    /\ \E mode \in {SINGLE, PRESENTATION} :
        state' = [INITIAL_STATE EXCEPT !.mode = mode,
                                       !.imageCount = IF mode = PRESENTATION THEN 4 ELSE 2]
    /\ alertMsg' = ""
    /\ UNCHANGED <<jobs, csvFile, csvReader, text, rows, called, upload, drive,
                 local, save, google, now>>

\* the prompt text area of step 1
SetPrompt ==
    /\ state.step = 1
    /\ \E value \in {<<>>, <<"p">>} : state' = [state EXCEPT !.prompt = value]
    /\ alertMsg' = ""
    /\ UNCHANGED <<jobs, csvFile, csvReader, text, rows, called, upload, drive,
                 local, save, google, now>>

\* the image count buttons of single-slide mode
SetImageCount ==
    /\ state.mode = SINGLE
    /\ state.step = 1
    /\ \E num \in 1..MaxImages : state' = [state EXCEPT !.imageCount = num]
    /\ alertMsg' = ""
    /\ UNCHANGED <<jobs, csvFile, csvReader, text, rows, called, upload, drive,
                 local, save, google, now>>

\* the animation check box of single-slide mode
SetAnimationMode ==
    /\ state.mode = SINGLE
    /\ state.step = 1
    /\ \E checked \in BOOLEAN : state' = [state EXCEPT !.isAnimationMode = checked]
    /\ alertMsg' = ""
    /\ UNCHANGED <<jobs, csvFile, csvReader, text, rows, called, upload, drive,
                 local, save, google, now>>

\* goToStep, from the buttons that call it
GoToStep ==
    /\ \E step \in 1..2 :
        /\ \/ step = 1 /\ state.step = 2
           \/ step = 1 /\ state.step = 3 /\ state.mode = SINGLE
           \/ step = 2 /\ state.step = 3 /\ state.mode = PRESENTATION
        /\ state' = [state EXCEPT !.step = step]
    /\ alertMsg' = ""
    /\ UNCHANGED <<jobs, csvFile, csvReader, text, rows, called, upload, drive,
                 local, save, google, now>>

\* the keys of PresentationPage
OutlineFields == {"pageNumber", "title", "content", "visualCue", "emphasis", "mood"}

\* variant: the field is set on every page
outlineAfterChangeAllPages(outline, index, field, value) ==
    IF field = "pageNumber" THEN outline
    ELSE [i \in 1..Len(outline) |-> [outline[i] EXCEPT ![field] = value]]

\* lines 348-350: the outline handleOutlineChange installs; for pageNumber it
\* returns before setState
outlineAfterChange(outline, index, field, value) ==
    IF field = "pageNumber" THEN outline
    ELSE [outline EXCEPT ![index][field] = value]

\* handleOutlineChange, from the outline editor of step 2, for a field of fields
OutlineChange(fields) ==
    /\ state.mode = PRESENTATION
    /\ state.step = 2
    /\ \E index \in 1..Len(state.presentationOutline) :
        \E field \in fields :
            \E value \in {<<"x">>} :
                state' = [state EXCEPT !.presentationOutline =
                             outlineAfterChange(state.presentationOutline,
                                                index, field, value)]
    /\ alertMsg' = ""
    /\ UNCHANGED <<jobs, csvFile, csvReader, text, rows, called, upload, drive,
                 local, save, google, now>>

\* a tile of the image grid of single-slide mode is clicked, App.tsx:704-707:
\* handleImageSelect, then goToStep(3)
HandleImageSelect ==
    /\ state.mode = SINGLE
    /\ state.step \in {2, 3}
    /\ \E i \in 1..Len(state.generatedImages) :
        state' = [state EXCEPT !.selectedImageId = state.generatedImages[i].id,
                               !.step = 3]
    /\ alertMsg' = ""
    /\ UNCHANGED <<jobs, csvFile, csvReader, text, rows, called, upload, drive,
                 local, save, google, now>>

\* handleOutlineChange where the other handlers run too: the title is edited
HandleOutlineChange == OutlineChange({"pageNumber", "title"})

\* handleOutlineChange with every key of a page
HandleOutlineChangeAnyField == OutlineChange(OutlineFields)

\* handleCsvUpload with a file picked in the CSV input of step 1
PickCsvFile ==
    /\ state.mode = PRESENTATION
    /\ state.step = 1
    /\ csvReader # "LOADING"
    /\ \E file \in AppCsvFiles : csvFile' = file
    /\ csvReader' = "LOADING"
    /\ alertMsg' = ""
    /\ UNCHANGED <<state, jobs, text, rows, called, upload, drive,
                 local, save, google, now>>

\* handleGenerateSingle up to its first await; without an API key generateInfographics
\* throws before any request and the catch block runs
HandleGenerateSingle ==
    /\ state.mode = SINGLE
    /\ state.step = 1
    /\ state.prompt # <<>>
    /\ ~state.isGenerating
    /\ \E hasKey \in BOOLEAN :
        IF hasKey
        THEN /\ ~InFlight({"single", "suggestions"})
             /\ now < MaxClock
             /\ now' = now + 1
             /\ jobs' = Append(jobs,
                    [ kind |-> "single",
                      made |-> [i \in 1..state.imageCount |->
                                    imageOfRequest(state.prompt, i - 1, state.imageCount,
                                                   state.isAnimationMode, now)],
                      results |-> [i \in 1..state.imageCount |-> "pending"],
                      animation |-> state.isAnimationMode,
                      images |-> <<>>,
                      response |-> NoResponse ])
             /\ state' = [state EXCEPT !.isGenerating = TRUE]
             /\ alertMsg' = ""
        ELSE /\ jobs' = jobs
             /\ now' = now
             /\ state' = [state EXCEPT !.isGenerating = FALSE]
             /\ alertMsg' = ALERT_GENERATE_FAILED
    /\ UNCHANGED <<csvFile, csvReader, text, rows, called, upload, drive,
                 local, save, google>>

\* one image request settles
RequestSettles ==
    /\ \E j \in 1..Len(jobs) :
        \E i \in 1..Len(jobs[j].results) :
            /\ jobs[j].results[i] = "pending"
            /\ \E outcome \in Outcomes :
                jobs' = [jobs EXCEPT ![j].results[i] = resolvedTo(outcome)]
    /\ UNCHANGED <<state, alertMsg, csvFile, csvReader, text, rows, called, upload, drive,
                 local, save, google, now>>

\* generateInfographics returns to handleGenerateSingle, which goes on to
\* generateSuggestions or, in animation mode, to its setState
InfographicsReturn ==
    /\ \E j \in 1..Len(jobs) :
        /\ jobs[j].kind = "single"
        /\ AllSettled(jobs[j])
        /\ LET images == filterNotNull(jobs[j].made, jobs[j].results)
           IN  IF jobs[j].animation
               THEN /\ jobs' = RemoveAt(jobs, j)
                    /\ state' = [state EXCEPT !.generatedImages = images,
                                              !.aiSuggestions = <<>>,
                                              !.step = 2,
                                              !.isGenerating = FALSE]
               ELSE /\ jobs' = [jobs EXCEPT ![j].kind = "suggestions",
                                            ![j].images = images]
                    /\ state' = state
    /\ alertMsg' = ""
    /\ UNCHANGED <<csvFile, csvReader, text, rows, called, upload, drive,
                 local, save, google, now>>

\* generateSuggestions returns, with the parsed list or with its fallback list
SuggestionsReturn ==
    /\ \E j \in 1..Len(jobs) :
        /\ jobs[j].kind = "suggestions"
        /\ \E suggestions \in {SUGGESTIONS, DEFAULT_SUGGESTIONS, FALLBACK_SUGGESTIONS} :
            state' = [state EXCEPT !.generatedImages = jobs[j].images,
                                   !.aiSuggestions = suggestions,
                                   !.step = 2,
                                   !.isGenerating = FALSE]
        /\ jobs' = RemoveAt(jobs, j)
    /\ alertMsg' = ""
    /\ UNCHANGED <<csvFile, csvReader, text, rows, called, upload, drive,
                 local, save, google, now>>

\* handleGenerateOutline up to its await
HandleGenerateOutline ==
    /\ state.mode = PRESENTATION
    /\ state.step = 1
    /\ state.prompt # <<>>
    /\ ~state.isGenerating
    /\ ~InFlight({"outline"})
    /\ jobs' = Append(jobs,
           [ kind |-> "outline",
             made |-> <<>>,
             results |-> <<>>,
             animation |-> FALSE,
             images |-> <<>>,
             response |-> NoResponse ])
    /\ state' = [state EXCEPT !.isGenerating = TRUE]
    /\ alertMsg' = ""
    /\ UNCHANGED <<csvFile, csvReader, text, rows, called, upload, drive,
                 local, save, google, now>>

\* the request of generatePresentationOutline settles
OutlineResponse ==
    /\ \E j \in 1..Len(jobs) :
        /\ jobs[j].kind = "outline"
        /\ jobs[j].response = NoResponse
        /\ \E response \in OutlineResponses :
            jobs' = [jobs EXCEPT ![j].response = response]
    /\ UNCHANGED <<state, alertMsg, csvFile, csvReader, text, rows, called, upload, drive,
                 local, save, google, now>>

\* generatePresentationOutline returns or throws, and handleGenerateOutline goes on
OutlineReturn ==
    /\ \E j \in 1..Len(jobs) :
        /\ jobs[j].kind = "outline"
        /\ jobs[j].response # NoResponse
        /\ LET result == outlineCallResult(jobs[j].response)
           IN  IF result.threw
               THEN /\ state' = [state EXCEPT !.isGenerating = FALSE]
                    /\ alertMsg' = ALERT_OUTLINE_FAILED
               ELSE /\ state' = [state EXCEPT !.presentationOutline = result.value,
                                              !.isGenerating = FALSE,
                                              !.step = 2]
                    /\ alertMsg' = ""
        /\ jobs' = RemoveAt(jobs, j)
    /\ UNCHANGED <<csvFile, csvReader, text, rows, called, upload, drive,
                 local, save, google, now>>

\* handleGenerateDeck up to its await: one call of generatePresentationPageImage per
\* page of the outline; without an API key every call throws before its request,
\* Promise.all rejects and the catch block runs
HandleGenerateDeck ==
    /\ state.mode = PRESENTATION
    /\ state.step = 2
    /\ ~state.isGenerating
    /\ \E hasKey \in BOOLEAN :
        IF hasKey \/ state.presentationOutline = <<>>
        THEN /\ ~InFlight({"deck"})
             /\ now < MaxClock
             /\ now' = now + 1
             /\ jobs' = Append(jobs,
                    [ kind |-> "deck",
                      made |-> [i \in 1..Len(state.presentationOutline) |->
                                    imageOfPage(state.presentationOutline[i], now)],
                      results |-> [i \in 1..Len(state.presentationOutline) |-> "pending"],
                      animation |-> FALSE,
                      images |-> <<>>,
                      response |-> NoResponse ])
             /\ state' = [state EXCEPT !.isGenerating = TRUE]
             /\ alertMsg' = ""
        ELSE /\ jobs' = jobs
             /\ now' = now
             /\ state' = [state EXCEPT !.isGenerating = FALSE]
             /\ alertMsg' = ALERT_DECK_FAILED
    /\ UNCHANGED <<csvFile, csvReader, text, rows, called, upload, drive,
                 local, save, google>>

\* Promise.all of handleGenerateDeck resolves and the handler goes on
DeckReturn ==
    /\ \E j \in 1..Len(jobs) :
        /\ jobs[j].kind = "deck"
        /\ AllSettled(jobs[j])
        /\ state' = [state EXCEPT
                        !.generatedImages = filterNotNull(jobs[j].made, jobs[j].results),
                        !.step = 3,
                        !.isGenerating = FALSE]
        /\ jobs' = RemoveAt(jobs, j)
    /\ alertMsg' = ""
    /\ UNCHANGED <<csvFile, csvReader, text, rows, called, upload, drive,
                 local, save, google, now>>

\* the outline stage of presentation mode
NextOutline ==
    \/ SwitchMode
    \/ SetPrompt
    \/ GoToStep
    \/ HandleOutlineChange
    \/ PickCsvFile
    \/ CsvOnload
    \/ HandleGenerateOutline
    \/ OutlineResponse
    \/ OutlineReturn

SpecOutline == InitApp /\ [][NextOutline]_vars

\* the deck stage of presentation mode, entered when handleGenerateOutline has
\* installed the outline the request returned (an empty one for a response without
\* text)
InitDeck ==
    /\ \E k \in 0..MaxPages :
        state = [INITIAL_STATE EXCEPT !.mode = PRESENTATION,
                                      !.imageCount = 4,
                                      !.prompt = <<"p">>,
                                      !.presentationOutline = AiOutline(k),
                                      !.step = 2]
    /\ alertMsg = ""
    /\ jobs = <<>>
    /\ local = NoLocal
    /\ save = NoSave
    /\ google = NoGoogle
    /\ now = 0
    /\ upload = NoUpload
    /\ drive = <<>>
    /\ csvFile = <<>>
    /\ csvReader = "EMPTY"
    /\ text = <<>>
    /\ rows = <<>>
    /\ called = FALSE

NextDeck ==
    \/ SwitchMode
    \/ GoToStep
    \/ HandleOutlineChange
    \/ HandleGenerateDeck
    \/ RequestSettles
    \/ DeckReturn

SpecDeck == InitDeck /\ [][NextDeck]_vars

\* the outline editor of step 2 alone
NextOutlineEdit == HandleOutlineChangeAnyField \/ GoToStep

SpecOutlineEdit == InitDeck /\ [][NextOutlineEdit]_vars

\* single-slide mode
NextSingle ==
    \/ SwitchMode
    \/ SetPrompt
    \/ SetImageCount
    \/ SetAnimationMode
    \/ GoToStep
    \/ HandleImageSelect
    \/ HandleGenerateSingle
    \/ RequestSettles
    \/ InfographicsReturn
    \/ SuggestionsReturn

SpecSingle == InitApp /\ [][NextSingle]_vars

----------------------------------------------------------------------------
(* handleEditImage, App.tsx:307-328, and editInfographic, part_001:288-335. *)

ALERT_EDIT_FAILED == "EDIT_FAILED"

\* the image editInfographic returns for a response with image data; Date.now() in
\* the id is the stamp of the call
imageOfEdit(instruction, stamp) ==
    [id |-> <<"edit", stamp>>, url |-> "data", promptUsed |-> instruction]

\* state.generatedImages.find(img => img.id === state.selectedImageId): the index of
\* the first image with the id, 0 when find returns undefined
findSelected(s) ==
    LET found == {i \in 1..Len(s.generatedImages) :
                      s.generatedImages[i].id = s.selectedImageId}
    IN  IF found = {} THEN 0 ELSE CHOOSE i \in found : \A j \in found : i <= j

\* variant: the new image is put at the end of the list
afterEditAppend(prev, newImage) ==
    [prev EXCEPT !.generatedImages = Append(@, newImage),
                 !.selectedImageId = newImage.id]

\* lines 315-319: the state handleEditImage installs for the image it got
afterEdit(prev, newImage) ==
    [prev EXCEPT !.generatedImages = <<newImage>> \o @,
                 !.selectedImageId = newImage.id]

\* variant: the finally block leaves isEditing as it is
editFinallyKeeps(l) == l

\* lines 325-327: the finally block of handleEditImage
editFinally(l) == [l EXCEPT !.isEditing = FALSE]

\* the instruction input of the editor, shown at step 3 for the selected image
SetEditInstruction ==
    /\ state.mode = SINGLE
    /\ state.step = 3
    /\ findSelected(state) # 0
    /\ \E value \in {<<>>, <<"i">>} : local' = [local EXCEPT !.editInstruction = value]
    /\ alertMsg' = ""
    /\ UNCHANGED <<state, jobs, save, google, now, upload, drive,
                   csvFile, csvReader, text, rows, called>>

\* handleEditImage up to its await, lines 307-313; its own guard decides whether a
\* call of editInfographic is made, whatever the page shows
HandleEditImage ==
    /\ state.mode = SINGLE
    /\ ~local.isEditing
    /\ IF findSelected(state) = 0 \/ local.editInstruction = <<>>
       THEN UNCHANGED <<jobs, local, now>>
       ELSE /\ ~InFlight({"edit"})
            /\ now < MaxClock
            /\ now' = now + 1
            /\ jobs' = Append(jobs,
                   [ kind |-> "edit",
                     made |-> <<imageOfEdit(local.editInstruction, now)>>,
                     results |-> <<>>,
                     animation |-> FALSE,
                     images |-> <<>>,
                     response |-> NoResponse ])
            /\ local' = [local EXCEPT !.isEditing = TRUE]
    /\ alertMsg' = ""
    /\ UNCHANGED <<state, save, google, upload, drive, csvFile, csvReader, text, rows, called>>

\* what the request of editInfographic settles to: a response with image data, a
\* response without, or a failure (a missing API key and image data that is not a
\* data URL throw inside the same try block)
EditOutcomes == {"image", "noImage", "error"}

\* the request of editInfographic settles
EditResponse ==
    /\ \E j \in 1..Len(jobs) :
        /\ jobs[j].kind = "edit"
        /\ jobs[j].response = NoResponse
        /\ \E outcome \in EditOutcomes :
            jobs' = [jobs EXCEPT ![j].response = [status |-> outcome, value |-> <<>>]]
    /\ UNCHANGED <<state, alertMsg, local, save, google, now, upload, drive,
                   csvFile, csvReader, text, rows, called>>

\* editInfographic returns the image, returns null or throws, and handleEditImage
\* goes on, lines 313-327
EditReturn ==
    /\ \E j \in 1..Len(jobs) :
        /\ jobs[j].kind = "edit"
        /\ jobs[j].response # NoResponse
        /\ IF jobs[j].response.status = "image"
           THEN /\ state' = afterEdit(state, jobs[j].made[1])
                /\ local' = editFinally([local EXCEPT !.editInstruction = <<>>])
                /\ alertMsg' = ""
           ELSE /\ state' = state
                /\ local' = editFinally(local)
                /\ alertMsg' = IF jobs[j].response.status = "error"
                               THEN ALERT_EDIT_FAILED ELSE ""
        /\ jobs' = RemoveAt(jobs, j)
    /\ UNCHANGED <<save, google, now, upload, drive, csvFile, csvReader, text, rows, called>>

\* step 2 of single-slide mode: handleGenerateSingle has installed the images of the
\* requests that succeeded
InitEdit ==
    /\ \E n \in 1..MaxImages : \E results \in [1..n -> {"image", "null"}] :
        state = [INITIAL_STATE EXCEPT
                    !.prompt = <<"p">>,
                    !.imageCount = n,
                    !.generatedImages =
                        filterNotNull(
                            [i \in 1..n |-> imageOfRequest(<<"p">>, i - 1, n, FALSE, 0)],
                            results),
                    !.aiSuggestions = SUGGESTIONS,
                    !.step = 2]
    /\ alertMsg = ""
    /\ jobs = <<>>
    /\ local = NoLocal
    /\ save = NoSave
    /\ google = NoGoogle
    /\ now = 1
    /\ upload = NoUpload
    /\ drive = <<>>
    /\ csvFile = <<>>
    /\ csvReader = "EMPTY"
    /\ text = <<>>
    /\ rows = <<>>
    /\ called = FALSE

NextEdit ==
    \/ HandleImageSelect
    \/ GoToStep
    \/ SetEditInstruction
    \/ HandleEditImage
    \/ EditResponse
    \/ EditReturn
    \/ SwitchMode

SpecEdit == InitEdit /\ [][NextEdit]_vars

----------------------------------------------------------------------------
(* uploadImagesToDriveInFolder, googleDriveService.ts:363-380, with the Drive      *)
(* folder it uploads to.  A call of uploadImageToDriveInFolder either creates the  *)
(* file and returns its URL, or throws.                                            *)

FileNames == {"a.png", "b.png"}

\* the failures of uploadImageToDriveInFolder: the response status it tells apart,
\* and every other error
UploadFailures == {"HTTP_403", "HTTP_401", "HTTP_404", "OTHER"}

\* line 343, for the id Drive gave the file
fileUrlOf(id) == <<"https://drive.google.com/file/d/", id, "/view">>

\* variant: the legacy target of uploadImageToDrive, the parent folder itself
uploadTargetParent(u) == 0

\* line 371: every call is given the folderId argument
uploadTarget(u) == u.folderId

\* variant: the failed image is skipped and the loop goes on
onUploadErrorSkip(u, error) == [u EXCEPT !.inFlight = 0]

\* lines 373-376: the catch block logs the error and throws it again
onUploadError(u, error) ==
    [u EXCEPT !.inFlight = 0, !.status = "thrown", !.error = error]

InitUpload ==
    /\ upload = NoUpload
    /\ drive = <<>>
    /\ state = INITIAL_STATE
    /\ alertMsg = ""
    /\ jobs = <<>>
    /\ local = NoLocal
    /\ save = NoSave
    /\ google = NoGoogle
    /\ now = 0
    /\ csvFile = <<>>
    /\ csvReader = "EMPTY"
    /\ text = <<>>
    /\ rows = <<>>
    /\ called = FALSE

\* the caller adds an image to the argument
AddImage ==
    /\ upload.status = "idle"
    /\ Len(upload.images) < MaxFiles
    /\ \E name \in FileNames :
        upload' = [upload EXCEPT
                      !.images = Append(@, [url |-> <<"data", name>>, name |-> name])]
    /\ UNCHANGED <<drive, state, alertMsg, jobs, csvFile, csvReader, text, rows, called,
                 local, save, google, now>>

\* the call, lines 363-367
CallUploadImages ==
    /\ upload.status = "idle"
    /\ upload' = [upload EXCEPT !.status = "running"]
    /\ UNCHANGED <<drive, state, alertMsg, jobs, csvFile, csvReader, text, rows, called,
                 local, save, google, now>>

\* line 371: the loop calls uploadImageToDriveInFolder for the next image and awaits it
UploadNext ==
    /\ upload.status = "running"
    /\ upload.inFlight = 0
    /\ Len(upload.calls) < Len(upload.images)
    /\ upload' = [upload EXCEPT
                     !.calls = Append(@, upload.images[Len(upload.calls) + 1].name),
                     !.targets = Append(@, uploadTarget(upload)),
                     !.inFlight = Len(upload.calls) + 1]
    /\ UNCHANGED <<drive, state, alertMsg, jobs, csvFile, csvReader, text, rows, called,
                 local, save, google, now>>

\* the awaited upload settles, lines 371-376
UploadSettles ==
    /\ upload.status = "running"
    /\ upload.inFlight # 0
    /\ LET image == upload.images[upload.inFlight]
       IN  \E outcome \in {"ok"} \cup UploadFailures :
               IF outcome = "ok"
               THEN /\ drive' = Append(drive, image.name)
                    /\ upload' = [upload EXCEPT
                                     !.results = Append(@, fileUrlOf(Len(drive) + 1)),
                                     !.inFlight = 0]
               ELSE /\ drive' = drive
                    /\ upload' = onUploadError(upload,
                                     [name |-> image.name, failure |-> outcome])
    /\ UNCHANGED <<state, alertMsg, jobs, csvFile, csvReader, text, rows, called,
                 local, save, google, now>>

\* line 379: the loop is over and results is returned
UploadReturn ==
    /\ upload.status = "running"
    /\ upload.inFlight = 0
    /\ Len(upload.calls) = Len(upload.images)
    /\ upload' = [upload EXCEPT !.status = "returned"]
    /\ UNCHANGED <<drive, state, alertMsg, jobs, csvFile, csvReader, text, rows, called,
                 local, save, google, now>>

NextUpload == AddImage \/ CallUploadImages \/ UploadNext \/ UploadSettles \/ UploadReturn

SpecUpload == InitUpload /\ [][NextUpload]_vars

----------------------------------------------------------------------------
(* handleSaveToDrive, App.tsx:355-458, and the calls of the Drive service it      *)
(* awaits.  A message is a sequence of words; the words the catch block looks for *)
(* are kept, the other words are shortened.                                       *)

CLIENT_ID == "Client ID"
KENGEN == "KENGEN"
NINSHO == "NINSHO"

ALERT_NO_IMAGES == "NO_IMAGES_TO_SAVE"
ALERT_NO_CLIENT_ID == "NO_CLIENT_ID"
ALERT_SAVED == "SAVED_TO_DRIVE"
ALERT_SAVE_FAILED == "SAVE_TO_DRIVE_FAILED"

STATUS_NO_CLIENT_ID == <<"NG", CLIENT_ID, "NOT_SET">>
STATUS_CREATING_FOLDER == <<"FOLDER_SAKUSEI_CHU">>
STATUS_UPLOADING == <<"UPLOAD_CHU">>
STATUS_FAILED == <<"NG", "HOZON_SHIPPAI">>

\* line 432, for the number of files uploaded
statusSaved(n) == <<"OK", ToString(n), "HOZON">>

\* the messages of the errors the Drive service throws
MSG_FOLDER_FORBIDDEN == <<"FOLDER_SAKUSEI", KENGEN, "NASHI", "ACCESS", KENGEN, "KAKUNIN">>
MSG_UNAUTHENTICATED == <<NINSHO, "SHIPPAI", "SAI_LOGIN">>
MSG_UPLOAD_FORBIDDEN == <<"UPLOAD", KENGEN, "NASHI", "ACCESS", KENGEN, "KAKUNIN">>
MSG_FOLDER_NOT_FOUND == <<"FOLDER", "MITSUKARANAI", "FOLDER_ID", "KAKUNIN">>
MSG_LOGIN_CANCELLED == <<"LOGIN", "CANCEL">>
MSG_ACCESS_DENIED == <<"ACCESS", "KYOHI", KENGEN, "KYOKA">>
MSG_LOGIN_FAILED == <<"LOGIN", "SHIPPAI">>

\* the messages the alert of the catch block shows instead of a message of the
\* service, lines 444-452
FRIENDLY_CLIENT_ID == <<"Google", CLIENT_ID, "NOT_SET", "VITE_GOOGLE_CLIENT_ID">>
FRIENDLY_KENGEN == <<"DRIVE", "ACCESS", KENGEN, "NASHI", "LOGIN", KENGEN, "KYOKA">>
FRIENDLY_NINSHO == <<NINSHO, "SHIPPAI", "SAI_LOGIN", "TAMESU">>

\* the message of the response body of a failed request: none, or some text
BodyMessages == {<<>>, <<"m">>}

\* the failures of signInToGoogle: the two error codes it tells apart, and every
\* other error
SignInFailures == {"popup_closed_by_user", "access_denied", "OTHER_SIGN_IN"}

\* signInToGoogle, lines 88-104: the error it throws for a failure
signInError(failure) ==
    IF failure = "popup_closed_by_user" THEN MSG_LOGIN_CANCELLED
    ELSE IF failure = "access_denied" THEN MSG_ACCESS_DENIED
    ELSE MSG_LOGIN_FAILED

\* createFolderInDrive, lines 213-234: the error it throws for a response that is
\* not OK; 403 and 401 are told apart, every other status gives the message of the
\* body or, without one, a text with the status
createFolderError(failure, bodyMessage) ==
    IF failure = "HTTP_403" THEN MSG_FOLDER_FORBIDDEN
    ELSE IF failure = "HTTP_401" THEN MSG_UNAUTHENTICATED
    ELSE IF bodyMessage # <<>> THEN bodyMessage
    ELSE <<"FOLDER_SAKUSEI", "SHIPPAI", failure>>

\* uploadImageToDriveInFolder, lines 316-340: the error it throws for a response
\* that is not OK
uploadError(failure, bodyMessage) ==
    IF failure = "HTTP_403" THEN MSG_UPLOAD_FORBIDDEN
    ELSE IF failure = "HTTP_401" THEN MSG_UNAUTHENTICATED
    ELSE IF failure = "HTTP_404" THEN MSG_FOLDER_NOT_FOUND
    ELSE IF bodyMessage # <<>> THEN bodyMessage
    ELSE <<"UPLOAD", "SHIPPAI", failure>>

\* lines 441-452: the message of the alert for the message of the error
userFriendlyMessage(errorMessage) ==
    IF includes(errorMessage, <<CLIENT_ID>>) THEN FRIENDLY_CLIENT_ID
    ELSE IF includes(errorMessage, <<KENGEN>>) THEN FRIENDLY_KENGEN
    ELSE IF includes(errorMessage, <<NINSHO>>) THEN FRIENDLY_NINSHO
    ELSE errorMessage

\* lines 397-404: the name of the folder, without its date
folderNameOf(s) ==
    IF s.prompt # <<>> THEN s.prompt
    ELSE IF s.mode = PRESENTATION /\ s.presentationOutline # <<>>
              /\ s.presentationOutline[1].title # <<>>
         THEN s.presentationOutline[1].title
    ELSE IF s.mode = PRESENTATION THEN <<"PUREZEN_SHIRYO">>
    ELSE <<"ICHIMAI_E">>

\* lines 412-426: the files to upload, named after the outline page at the index of
\* the image in presentation mode
imagesToUpload(s) ==
    [ idx \in 1..Len(s.generatedImages) |->
        [ url |-> s.generatedImages[idx].url,
          name |-> IF s.mode = PRESENTATION
                   THEN IF idx <= Len(s.presentationOutline)
                        THEN <<ToString(idx), s.presentationOutline[idx].title>>
                        ELSE <<ToString(idx), <<"SURAIDO">>>>
                   ELSE <<"GAZO", ToString(idx)>> ] ]

\* variant: the catch block starts the handler again
afterSaveErrorRetry(sv, failure, message) ==
    [sv EXCEPT !.pc = "isSignedIn",
               !.calls = Append(@, [op |-> "isSignedIn", arg |-> <<>>]),
               !.error = [failure |-> failure, message |-> message],
               !.shown = userFriendlyMessage(message)]

\* lines 434-457: the catch block and the finally block, for the error caught
afterSaveError(sv, failure, message) ==
    [sv EXCEPT !.pc = "idle",
               !.error = [failure |-> failure, message |-> message],
               !.shown = userFriendlyMessage(message)]

\* the handler is shown: by the deck of step 3, or by the editor of a selected image
SaveButtonShown ==
    /\ state.step = 3
    /\ state.mode = SINGLE =>
           \E i \in 1..Len(state.generatedImages) :
               state.generatedImages[i].id = state.selectedImageId

\* handleSaveToDrive up to its first await, lines 355-385
HandleSaveToDrive ==
    /\ SaveButtonShown
    /\ ~local.isSavingToDrive
    /\ save.pc = "idle"
    /\ IF state.generatedImages = <<>>
       THEN /\ alertMsg' = ALERT_NO_IMAGES
            /\ UNCHANGED <<local, save, upload>>
       ELSE IF ~google.clientId
       THEN /\ alertMsg' = ALERT_NO_CLIENT_ID
            /\ local' = [local EXCEPT !.driveSaveStatus = STATUS_NO_CLIENT_ID]
            /\ UNCHANGED <<save, upload>>
       ELSE /\ google.folders < MaxFolders
            /\ alertMsg' = ""
            /\ local' = [local EXCEPT !.isSavingToDrive = TRUE,
                                      !.driveSaveStatus = <<>>]
            /\ save' = [NoSave EXCEPT
                           !.pc = "isSignedIn",
                           !.closure = state,
                           !.calls = <<[op |-> "isSignedIn", arg |-> <<>>]>>]
            /\ upload' = NoUpload
    /\ UNCHANGED <<state, google, drive, jobs, now, csvFile, csvReader, text, rows, called>>

\* lines 406-409: the handler calls createFolderInDrive
callCreateFolder(sv) ==
    [sv EXCEPT !.pc = "createFolderInDrive",
               !.calls = Append(@, [op |-> "createFolderInDrive",
                                    arg |-> folderNameOf(sv.closure)])]

\* isSignedIn returns (it never throws), lines 385-391
IsSignedInReturns ==
    /\ save.pc = "isSignedIn"
    /\ \E signedIn \in {google.signedIn, FALSE} :
        IF signedIn
        THEN /\ save' = callCreateFolder(save)
             /\ local' = [local EXCEPT !.driveSaveStatus = STATUS_CREATING_FOLDER]
        ELSE /\ save' = [save EXCEPT
                            !.pc = "signInToGoogle",
                            !.calls = Append(@, [op |-> "signInToGoogle", arg |-> <<>>])]
             /\ local' = local
    /\ UNCHANGED <<state, alertMsg, google, upload, drive, jobs, now,
                   csvFile, csvReader, text, rows, called>>

\* signInToGoogle returns or throws, lines 390-409 and 434-457
SignInSettles ==
    /\ save.pc = "signInToGoogle"
    /\ \E outcome \in {"ok"} \cup SignInFailures :
        IF outcome = "ok"
        THEN /\ google' = [google EXCEPT !.signedIn = TRUE]
             /\ save' = callCreateFolder(save)
             /\ local' = [local EXCEPT !.driveSaveStatus = STATUS_CREATING_FOLDER]
             /\ alertMsg' = alertMsg
        ELSE /\ google' = google
             /\ save' = afterSaveError(save, outcome, signInError(outcome))
             /\ local' = [local EXCEPT !.driveSaveStatus = STATUS_FAILED,
                                       !.isSavingToDrive = FALSE]
             /\ alertMsg' = ALERT_SAVE_FAILED
    /\ UNCHANGED <<state, upload, drive, jobs, now, csvFile, csvReader, text, rows, called>>

\* createFolderInDrive returns the id of the new folder or throws, lines 409-429 and
\* 434-457; on success the handler calls uploadImagesToDriveInFolder
CreateFolderSettles ==
    /\ save.pc = "createFolderInDrive"
    /\ \E outcome \in {"ok"} \cup UploadFailures :
        IF outcome = "ok"
        THEN /\ google' = [google EXCEPT !.folders = @ + 1]
             /\ save' = [save EXCEPT
                            !.pc = "uploadImagesToDriveInFolder",
                            !.folderId = google.folders + 1,
                            !.calls = Append(@, [op |-> "uploadImagesToDriveInFolder",
                                                 arg |-> google.folders + 1])]
             /\ upload' = [NoUpload EXCEPT !.images = imagesToUpload(save.closure),
                                           !.folderId = google.folders + 1,
                                           !.status = "running"]
             /\ local' = [local EXCEPT !.driveSaveStatus = STATUS_UPLOADING]
             /\ alertMsg' = alertMsg
        ELSE /\ \E bodyMessage \in BodyMessages :
                 save' = afterSaveError(save, outcome,
                                        createFolderError(outcome, bodyMessage))
             /\ UNCHANGED <<google, upload>>
             /\ local' = [local EXCEPT !.driveSaveStatus = STATUS_FAILED,
                                       !.isSavingToDrive = FALSE]
             /\ alertMsg' = ALERT_SAVE_FAILED
    /\ UNCHANGED <<state, drive, jobs, now, csvFile, csvReader, text, rows, called>>

\* uploadImagesToDriveInFolder returns or throws, lines 429-457
SaveUploadSettles ==
    /\ save.pc = "uploadImagesToDriveInFolder"
    /\ upload.status \in {"returned", "thrown"}
    /\ IF upload.status = "returned"
       THEN /\ save' = [save EXCEPT !.pc = "idle"]
            /\ local' = [local EXCEPT
                            !.driveSaveStatus = statusSaved(Len(upload.results)),
                            !.isSavingToDrive = FALSE]
            /\ alertMsg' = ALERT_SAVED
       ELSE /\ \E bodyMessage \in BodyMessages :
                save' = afterSaveError(save, upload.error.failure,
                                       uploadError(upload.error.failure, bodyMessage))
            /\ local' = [local EXCEPT !.driveSaveStatus = STATUS_FAILED,
                                      !.isSavingToDrive = FALSE]
            /\ alertMsg' = ALERT_SAVE_FAILED
    /\ UNCHANGED <<state, google, upload, drive, jobs, now,
                   csvFile, csvReader, text, rows, called>>

\* the outcomes of the page requests of a deck: one per page of an outline
DeckResults(k) == [1..k -> {"image", "null"}]

\* step 3 of either mode: the deck handleGenerateDeck installed for an outline, or
\* the images of handleGenerateSingle with one of them selected
InitSave ==
    /\ \/ \E k \in 0..MaxPages : \E results \in DeckResults(k) :
            state = [INITIAL_STATE EXCEPT
                        !.mode = PRESENTATION,
                        !.imageCount = 4,
                        !.prompt = <<"p">>,
                        !.presentationOutline = AiOutline(k),
                        !.generatedImages =
                            filterNotNull([i \in 1..k |-> imageOfPage(AiPage(i), 0)],
                                          results),
                        !.step = 3]
       \/ \E n \in 1..MaxImages : \E selected \in 1..n :
            state = [INITIAL_STATE EXCEPT
                        !.prompt = <<"p">>,
                        !.imageCount = n,
                        !.generatedImages =
                            [i \in 1..n |-> imageOfRequest(<<"p">>, i - 1, n, FALSE, 0)],
                        !.selectedImageId = <<"gen", 0, selected - 1>>,
                        !.aiSuggestions = SUGGESTIONS,
                        !.step = 3]
    /\ google \in [clientId : BOOLEAN, signedIn : BOOLEAN, folders : {0}]
    /\ alertMsg = ""
    /\ jobs = <<>>
    /\ local = NoLocal
    /\ save = NoSave
    /\ now = 1
    /\ upload = NoUpload
    /\ drive = <<>>
    /\ csvFile = <<>>
    /\ csvReader = "EMPTY"
    /\ text = <<>>
    /\ rows = <<>>
    /\ called = FALSE

NextSave ==
    \/ HandleSaveToDrive
    \/ IsSignedInReturns
    \/ SignInSettles
    \/ CreateFolderSettles
    \/ UploadNext
    \/ UploadSettles
    \/ UploadReturn
    \/ SaveUploadSettles
    \/ SwitchMode

SpecSave == InitSave /\ [][NextSave]_vars

----------------------------------------------------------------------------
(* The handlers that raise a busy flag, together: step 1 of either mode with the  *)
(* prompt typed in, a client id configured, and room for one more folder and two  *)
(* more stamped calls.  Under the fairness conditions a call of the generation    *)
(* service or of the Drive service that is awaited settles, and the continuation  *)
(* of the handler that awaits it runs.                                            *)

InitBusy ==
    /\ \/ \E checked \in BOOLEAN :
            state = [INITIAL_STATE EXCEPT !.prompt = <<"p">>,
                                          !.isAnimationMode = checked]
       \/ state = [INITIAL_STATE EXCEPT !.mode = PRESENTATION,
                                        !.imageCount = 4,
                                        !.prompt = <<"p">>]
    /\ alertMsg = ""
    /\ jobs = <<>>
    /\ local = NoLocal
    /\ save = NoSave
    /\ google = [clientId |-> TRUE, signedIn |-> FALSE, folders |-> MaxFolders - 1]
    /\ now = MaxClock - 2
    /\ upload = NoUpload
    /\ drive = <<>>
    /\ csvFile = <<>>
    /\ csvReader = "EMPTY"
    /\ text = <<>>
    /\ rows = <<>>
    /\ called = FALSE

NextBusy ==
    \/ HandleGenerateSingle
    \/ RequestSettles
    \/ InfographicsReturn
    \/ SuggestionsReturn
    \/ HandleGenerateOutline
    \/ OutlineResponse
    \/ OutlineReturn
    \/ HandleGenerateDeck
    \/ DeckReturn
    \/ HandleImageSelect
    \/ SetEditInstruction
    \/ HandleEditImage
    \/ EditResponse
    \/ EditReturn
    \/ HandleSaveToDrive
    \/ IsSignedInReturns
    \/ SignInSettles
    \/ CreateFolderSettles
    \/ UploadNext
    \/ UploadSettles
    \/ UploadReturn
    \/ SaveUploadSettles

SpecBusy ==
    /\ InitBusy
    /\ [][NextBusy]_vars
    /\ WF_vars(RequestSettles)
    /\ WF_vars(InfographicsReturn)
    /\ WF_vars(SuggestionsReturn)
    /\ WF_vars(OutlineResponse)
    /\ WF_vars(OutlineReturn)
    /\ WF_vars(DeckReturn)
    /\ WF_vars(EditResponse)
    /\ WF_vars(EditReturn)
    /\ WF_vars(IsSignedInReturns)
    /\ WF_vars(SignInSettles)
    /\ WF_vars(CreateFolderSettles)
    /\ WF_vars(UploadNext)
    /\ WF_vars(UploadSettles)
    /\ WF_vars(UploadReturn)
    /\ WF_vars(SaveUploadSettles)

----------------------------------------------------------------------------
(* Vocabulary of the properties of parseCSV. *)

Range(s) == {s[i] : i \in 1..Len(s)}

CountOf(c, s) == Cardinality({i \in 1..Len(s) : s[i] = c})

Last(s) == s[Len(s)]

Front(s) == SubSeq(s, 1, Len(s) - 1)

\* t is "v" for a v without a quote character
IsWrappedValue(t) ==
    /\ Len(t) >= 2
    /\ t[1] = QUOTE
    /\ t[Len(t)] = QUOTE
    /\ \A i \in 2..(Len(t) - 1) : t[i] # QUOTE

Inner(t) == SubSeq(t, 2, Len(t) - 1)

\* t is "a""b" with the doubled quote at k, k+1, for a and b without a quote character
IsDoubledAt(t, k) ==
    /\ Len(t) >= 4
    /\ t[1] = QUOTE
    /\ t[Len(t)] = QUOTE
    /\ k >= 2
    /\ k + 1 <= Len(t) - 1
    /\ t[k] = QUOTE
    /\ t[k + 1] = QUOTE
    /\ QUOTE \notin Range(SubSeq(t, 2, k - 1))
    /\ QUOTE \notin Range(SubSeq(t, k + 2, Len(t) - 1))

\* position i of t lies outside every quoted span: an even number of quotes precedes it
OutsideQuotes(t, i) == CountOf(QUOTE, SubSeq(t, 1, i - 1)) % 2 = 0

\* t with every record delimiter outside a quoted span replaced by one LF
NormaliseEOL(t) ==
    LET piece(i) ==
            IF t[i] = CR /\ OutsideQuotes(t, i)
            THEN IF charAt(t, i + 1) = LF THEN <<>> ELSE <<LF>>
            ELSE <<t[i]>>
        cat[i \in 0..Len(t)] == IF i = 0 THEN <<>> ELSE cat[i - 1] \o piece(i)
    IN  cat[Len(t)]

\* the lines of t, split at CR LF, lone CR and lone LF
RECURSIVE SplitLines(_)
SplitLines(t) ==
    LET ends == {i \in 1..Len(t) : t[i] \in {CR, LF}}
    IN  IF ends = {} THEN <<t>>
        ELSE LET k == CHOOSE i \in ends : \A j \in ends : i <= j
                 w == IF t[k] = CR /\ charAt(t, k + 1) = LF THEN 2 ELSE 1
             IN  <<SubSeq(t, 1, k - 1)>> \o SplitLines(SubSeq(t, k + w, Len(t)))

\* the lines of t without one trailing empty line
LinesOf(t) ==
    LET l == SplitLines(t)
    IN  IF Last(l) = <<>> THEN Front(l) ELSE l

\* every maximal run of quote characters in t has even length
QuoteRunsEven(t) ==
    \A i \in 1..Len(t) :
        (t[i] = QUOTE /\ charAt(t, i - 1) # QUOTE) =>
            \E n \in 1..Len(t) :
                /\ n % 2 = 0
                /\ \A j \in i..(i + n - 1) : charAt(t, j) = QUOTE
                /\ charAt(t, i + n) # QUOTE

\* t with every pair of quote characters replaced by one
RECURSIVE Collapse(_)
Collapse(t) ==
    IF t = <<>> THEN <<>>
    ELSE IF t[1] = QUOTE /\ charAt(t, 2) = QUOTE
    THEN <<QUOTE>> \o Collapse(SubSeq(t, 3, Len(t)))
    ELSE <<t[1]>> \o Collapse(SubSeq(t, 2, Len(t)))

\* the quote at k opens a quoted span of t that is never closed
IsUnclosedAt(t, k) ==
    /\ k \in 1..Len(t)
    /\ t[k] = QUOTE
    /\ CountOf(QUOTE, SubSeq(t, 1, k - 1)) % 2 = 0
    /\ charAt(t, k - 1) # QUOTE
    /\ QuoteRunsEven(SubSeq(t, k + 1, Len(t)))

\* the rows of the text before the quote at k, its pending row and pending field made
\* visible by a closing character "a"
RowsBefore(t, k) == parseCSV(SubSeq(t, 1, k - 1) \o <<"a">>)

PendingRow(t, k) == Front(Last(RowsBefore(t, k)))

PendingField(t, k) == Front(Last(Last(RowsBefore(t, k))))

\* the field an unclosed span opened at k builds
UnclosedField(t, k) == PendingField(t, k) \o Collapse(SubSeq(t, k + 1, Len(t)))

----------------------------------------------------------------------------
(* Properties of parseCSV, under SpecParse. *)

\* C1: a value that holds a comma and no quote character, wrapped in one pair of
\* quotes, parses to one row with the one field equal to the value; commas and line
\* breaks inside the quotes are content.
C1_QuotedValueRoundTrip ==
    (called /\ IsWrappedValue(text) /\ COMMA \in Range(Inner(text)))
        => rows = << <<Inner(text)>> >>

C1_Witness ==
    /\ called
    /\ IsWrappedValue(text)
    /\ COMMA \in Range(Inner(text))
    /\ LF \in Range(Inner(text))
    /\ rows = << <<Inner(text)>> >>

\* C2: the text "a""b", a and b without a quote character, parses to one row with
\* the one field a"b: the doubled quote gives one quote and does not close the span.
C2_DoubledQuoteIsOneQuote ==
    called =>
        \A k \in 1..Len(text) :
            IsDoubledAt(text, k) =>
                rows = << << SubSeq(text, 2, k - 1) \o <<QUOTE>>
                             \o SubSeq(text, k + 2, Len(text) - 1) >> >>

C2_Witness ==
    /\ called
    /\ \E k \in 1..Len(text) :
        /\ IsDoubledAt(text, k)
        /\ k > 2
        /\ k + 2 < Len(text)
    /\ Len(rows) = 1
    /\ Len(rows[1]) = 1
    /\ CountOf(QUOTE, rows[1][1]) = 1

\* C3: replacing every record delimiter outside a quoted span (CR LF, lone CR, lone
\* LF) by one LF does not change what parseCSV returns.
C3_LineEndingsEquivalent ==
    called => rows = parseCSV(NormaliseEOL(text))

C3_Witness ==
    /\ called
    /\ \E i, j, k \in 1..Len(text) :
        /\ text[i] = CR /\ charAt(text, i + 1) = LF /\ OutsideQuotes(text, i)
        /\ text[j] = CR /\ charAt(text, j + 1) # LF /\ OutsideQuotes(text, j)
        /\ text[k] = LF /\ charAt(text, k - 1) # CR /\ OutsideQuotes(text, k)
    /\ Len(rows) = 3
    /\ rows = parseCSV(NormaliseEOL(text))

C5_UnclosedSpanIsFinalField ==
    called =>
        \A k \in 1..Len(text) :
            IsUnclosedAt(text, k) =>
                /\ rows # <<>>
                /\ Last(Last(rows)) = UnclosedField(text, k)

\* C5 as amended: the field that an unclosed quoted span builds is the final field
\* of the final row when it is not empty or its row already holds a field; when it
\* is empty and its row holds no field, no row is returned for it.
C5_UnclosedSpanFlushedIfPending ==
    called =>
        /\ \A r \in 1..Len(rows) : Len(rows[r]) >= 1
        /\ \A k \in 1..Len(text) :
            IsUnclosedAt(text, k) =>
                IF UnclosedField(text, k) # <<>> \/ PendingRow(text, k) # <<>>
                THEN rows = Append(Front(RowsBefore(text, k)),
                                   Append(PendingRow(text, k), UnclosedField(text, k)))
                ELSE rows = Front(RowsBefore(text, k))

C5_Witness ==
    /\ called
    /\ \E k \in 1..Len(text) :
        /\ IsUnclosedAt(text, k)
        /\ k > 1
        /\ {LF, COMMA, QUOTE} \subseteq Range(SubSeq(text, k + 1, Len(text)))
        /\ rows # <<>>
        /\ Last(Last(rows)) = UnclosedField(text, k)
        /\ LF \in Range(Last(Last(rows)))

----------------------------------------------------------------------------
(* Vocabulary of the properties of handleCsvUpload. *)

\* the rows of the picked file
CsvRows == parseCSV(csvFile)

\* reader.onload has run for the picked file
CsvLoaded == csvReader = "DONE"

\* the header rule as the claims state it: the first field holds the katakana for
\* slide, "slide" or "no", or the second field holds the katakana for title or "title"
ClaimedHeader(row) ==
    \/ includes(toLowerCase(row[1]), SURAIDO)
    \/ includes(toLowerCase(row[1]), SLIDE_LOWER)
    \/ includes(toLowerCase(row[1]), <<"n", "o">>)
    \/ /\ Len(row) >= 2
       /\ \/ includes(toLowerCase(row[2]), TAITORU)
          \/ includes(toLowerCase(row[2]), TITLE_LOWER)

\* the rows the loop of lines 175-205 visits, and those of them it makes a page of
DataRows ==
    LET csvRows == CsvRows
    IN  IF csvRows = <<>> \/ headerThrows(csvRows) THEN <<>>
        ELSE SubSeq(csvRows, startIndex(csvRows) + 1, Len(csvRows))

AcceptedRows == SelectSeq(DataRows, isAccepted)

\* the first field of cols parses to a positive integer
HasPositiveNumber(cols) == ~parseInt(cols[1]).isNaN /\ parseInt(cols[1]).value > 0

----------------------------------------------------------------------------
(* Properties of handleCsvUpload, under SpecCsv. *)

\* C6: a file that is one non-blank row of one field, without a header marker,
\* installs exactly one page: pageNumber 1, empty title, the field as content.
C6_SingleFieldRowIsContentPage ==
    ( /\ CsvLoaded
      /\ Len(CsvRows) = 1
      /\ Len(CsvRows[1]) = 1
      /\ trim(CsvRows[1][1]) # <<>>
      /\ ~ClaimedHeader(CsvRows[1]) )
    => /\ Len(state.presentationOutline) = 1
       /\ state.presentationOutline[1].pageNumber = 1
       /\ state.presentationOutline[1].title = <<>>
       /\ state.presentationOutline[1].content = CsvRows[1][1]

\* C7, for a first row of two or more fields: the first row is left out of the data
\* rows exactly when it matches the header rule of the claim, and is a data row like
\* the others in every other case: the installed outline is the one built from the
\* rows after the claimed header.
C7_HeaderRuleAsClaimed ==
    (CsvLoaded /\ CsvRows # <<>> /\ Len(CsvRows[1]) >= 2) =>
        state.presentationOutline =
            buildOutline(CsvRows, IF ClaimedHeader(CsvRows[1]) THEN 1 ELSE 0, <<>>)

\* C8: every installed page has a title or a content that is not empty after
\* trimming.
C8_NoBlankPage ==
    \A k \in 1..Len(state.presentationOutline) :
        \/ trim(state.presentationOutline[k].title) # <<>>
        \/ trim(state.presentationOutline[k].content) # <<>>

\* C9: every installed page has a pageNumber of at least 1, and the page of a row
\* with three or more fields whose first field is no positive integer is numbered
\* 1 + the number of pages accepted before it.
C9_PageNumberPositive ==
    CsvLoaded =>
        LET accepted == AcceptedRows
        IN  \A k \in 1..Len(state.presentationOutline) :
                /\ state.presentationOutline[k].pageNumber >= 1
                /\ (Len(accepted[k]) >= 3 /\ ~HasPositiveNumber(accepted[k]))
                       => state.presentationOutline[k].pageNumber = k

\* C10: the page of a row with three or more fields whose first field parses to a
\* positive integer n has pageNumber n at any position, the second field trimmed as
\* title and the third trimmed as content; later fields are ignored.
C10_ExplicitPageNumberKept ==
    CsvLoaded =>
        LET accepted == AcceptedRows
        IN  /\ Len(state.presentationOutline) = Len(accepted)
            /\ \A k \in 1..Len(accepted) :
                LET cols == accepted[k]
                IN  (Len(cols) >= 3 /\ HasPositiveNumber(cols)) =>
                        state.presentationOutline[k] =
                            [ pageNumber |-> parseInt(cols[1]).value,
                              title |-> trim(cols[2]),
                              content |-> trim(cols[3]),
                              visualCue |-> <<>>,
                              emphasis |-> <<>>,
                              mood |-> <<>> ]

C10_Witness ==
    /\ CsvLoaded
    /\ csvFile = <<"5", COMMA, SPACE, "a", SPACE, COMMA, "a", COMMA, "a">>
    /\ Len(state.presentationOutline) = 1
    /\ state.presentationOutline[1].pageNumber = 5
    /\ state.presentationOutline[1].title = <<"a">>
    /\ state.presentationOutline[1].content = <<"a">>
    /\ state.step = 2

\* the rows of the file have two fields each
AllTwoFields ==
    LET csvRows == CsvRows
    IN  csvRows # <<>> /\ \A r \in 1..Len(csvRows) : Len(csvRows[r]) = 2

\* a row of two fields one of which is not the empty string
HasTitleOrContent(row) == row[1] # <<>> \/ row[2] # <<>>

\* the page of position k for a row of two fields
TwoFieldPage(row, k) ==
    [ pageNumber |-> k,
      title |-> trim(row[1]),
      content |-> trim(row[2]),
      visualCue |-> <<>>,
      emphasis |-> <<>>,
      mood |-> <<>> ]

NoExplicitNumber(cols) ==
    Len(cols) <= 2 \/ parseInt(cols[1]).isNaN \/ parseInt(cols[1]).value = 0

\* C12: when no data row supplies a page number (each has one or two fields, or a
\* first field that is unparsable, zero or absent), the pageNumbers of the installed
\* outline are 1..n in order, also when blank rows between accepted rows are skipped.
C12_PositionalNumbersAreOneToN ==
    CsvLoaded =>
        LET dataRows == DataRows
        IN  (\A r \in 1..Len(dataRows) : NoExplicitNumber(dataRows[r])) =>
                \A k \in 1..Len(state.presentationOutline) :
                    state.presentationOutline[k].pageNumber = k

C12_Witness ==
    /\ CsvLoaded
    /\ csvFile = <<"a", COMMA, "a", LF, LF, "a">>
    /\ Len(DataRows) = 3
    /\ ~isAccepted(DataRows[2])
    /\ Len(state.presentationOutline) = 2
    /\ state.presentationOutline[1].pageNumber = 1
    /\ state.presentationOutline[2].pageNumber = 2

\* C13: an import never ends silently: once the file is read, either a non-empty
\* outline is installed at step 2 or a failure message has been shown.
C13_ImportNeverSilent ==
    CsvLoaded =>
        \/ state.step = 2 /\ state.presentationOutline # <<>>
        \/ alertMsg # ""

\* C16: the installed pages are in the order of the rows they come from (the k-th
\* page carries the title and the content of the k-th accepted row), and each has an
\* empty visualCue, emphasis and mood.
C16_PagesInRowOrder ==
    CsvLoaded =>
        LET accepted == AcceptedRows
        IN  /\ Len(state.presentationOutline) = Len(accepted)
            /\ \A k \in 1..Len(state.presentationOutline) :
                LET page == state.presentationOutline[k]
                IN  /\ page.title = trim(titleOf(accepted[k]))
                    /\ page.content = trim(contentOf(accepted[k]))
                    /\ page.visualCue = <<>>
                    /\ page.emphasis = <<>>
                    /\ page.mood = <<>>

C16_Witness ==
    /\ CsvLoaded
    /\ csvFile = <<"a", COMMA, "a", LF, "5">>
    /\ Len(state.presentationOutline) = 2
    /\ state.presentationOutline[1].title = <<"a">>
    /\ state.presentationOutline[1].content = <<"a">>
    /\ state.presentationOutline[2].title = <<>>
    /\ state.presentationOutline[2].content = <<"5">>
    /\ state.presentationOutline[2].mood = <<>>

----------------------------------------------------------------------------
(* Properties of the import into the application state, under SpecOutline. *)

\* the step is reader.onload for the picked file
IsCsvOnload == csvReader = "LOADING" /\ csvReader' = "DONE"

\* the pages of the accepted rows of the picked file
ImportedPages ==
    LET accepted == AcceptedRows
    IN  [k \in 1..Len(accepted) |-> pageOf(accepted[k], k - 1)]

\* C14: an import that accepts no page, or that raises an exception while the rows
\* are parsed or mapped, leaves the application state as it was: the outline, the
\* imageCount, the step and every other field.
C14_FailedImportLeavesState ==
    [][(IsCsvOnload /\ AcceptedRows = <<>>) => state' = state]_vars

C14_Witness ==
    /\ CsvLoaded
    /\ csvFile = <<"a">>
    /\ AcceptedRows = <<>>
    /\ alertMsg = ALERT_CSV_READ_FAILED
    /\ state.mode = PRESENTATION
    /\ state.step = 1
    /\ state.prompt = <<"p">>
    /\ Len(state.presentationOutline) = 2
    /\ state.presentationOutline[1].title = <<"x">>

\* C15: an import that accepts n >= 1 pages makes the outline exactly those n pages,
\* whatever the outline was before, sets imageCount to n and step to 2, and leaves
\* the mode, the prompt, the generated images and every other field as they were.
C15_ImportReplacesOutline ==
    [][(IsCsvOnload /\ Len(AcceptedRows) >= 1) =>
           state' = [state EXCEPT !.presentationOutline = ImportedPages,
                                  !.imageCount = Len(AcceptedRows),
                                  !.step = 2]]_vars

C15_Witness ==
    /\ CsvLoaded
    /\ Len(AcceptedRows) = 2
    /\ state.presentationOutline = ImportedPages
    /\ state.imageCount = 2
    /\ state.step = 2
    /\ state.mode = PRESENTATION
    /\ state.prompt = <<"p">>
    /\ alertMsg = ""

----------------------------------------------------------------------------
(* Properties of the generation handlers. *)

\* the requests of a call that resolved to an image, and the images of those
\* requests in request order
Succeeded(job) == {i \in 1..Len(job.results) : job.results[i] = "image"}

RankIn(job, i) == Cardinality({k \in Succeeded(job) : k <= i})

SuccessfulImages(job) ==
    [r \in 1..Cardinality(Succeeded(job)) |->
        job.made[CHOOSE i \in Succeeded(job) : RankIn(job, i) = r]]

\* the step settles a request of the call at j and changes no other request of it
SettlesOnlyOne(j) ==
    \A i \in 1..Len(jobs[j].results) :
        (jobs[j].results[i] = "pending" /\ jobs'[j].results[i] # "pending") =>
            \A k \in 1..Len(jobs[j].results) :
                k # i => jobs'[j].results[k] = jobs[j].results[k]

\* C17, under SpecDeck: handleGenerateDeck dispatches one request per page of the
\* outline before it awaits any; a request that fails or returns no image resolves
\* to an absent result and leaves the other requests as they are; when all have
\* settled, generatedImages is the successful results in outline order, step is 3
\* and isGenerating is false, whichever requests failed.
C17_DeckKeepsSuccessfulPagesInOrder ==
    [][ /\ Len(jobs') = Len(jobs) + 1 =>
               LET job == jobs'[Len(jobs')]
               IN  /\ Len(job.results) = Len(state.presentationOutline)
                   /\ \A i \in 1..Len(job.results) :
                       /\ job.results[i] = "pending"
                       /\ job.made[i] = imageOfPage(state.presentationOutline[i], now)
        /\ Len(jobs') = Len(jobs) => \A j \in 1..Len(jobs) : SettlesOnlyOne(j)
        /\ \A j \in 1..Len(jobs) :
               (jobs[j].kind = "deck" /\ jobs' = RemoveAt(jobs, j)) =>
                   /\ AllSettled(jobs[j])
                   /\ state'.generatedImages = SuccessfulImages(jobs[j])
                   /\ state'.step = 3
                   /\ ~state'.isGenerating ]_vars

C17_Witness ==
    /\ jobs = <<>>
    /\ upload = NoUpload
    /\ drive = <<>>
    /\ state.mode = PRESENTATION
    /\ state.step = 3
    /\ ~state.isGenerating
    /\ Len(state.presentationOutline) = 2
    /\ state.generatedImages = <<imageOfPage(state.presentationOutline[2], 0)>>

\* C19, under SpecSingle: generateInfographics with count n issues n requests; when
\* they have settled it returns the images of the requests that succeeded with image
\* data, in request order (between 0 and n of them), and a failed request never
\* makes the call fail: the handler goes on without its failure alert.
C19_InfographicsReturnsSuccessfulInOrder ==
    [][ /\ Len(jobs') = Len(jobs) + 1 =>
               LET job == jobs'[Len(jobs')]
               IN  /\ Len(job.results) = state.imageCount
                   /\ \A i \in 1..Len(job.results) :
                       /\ job.results[i] = "pending"
                       /\ job.made[i].id = <<"gen", now, i - 1>>
        /\ Len(jobs') = Len(jobs) => \A j \in 1..Len(jobs) : SettlesOnlyOne(j)
        /\ \A j \in 1..Len(jobs) :
               /\ ( /\ jobs[j].kind = "single"
                    /\ Len(jobs') = Len(jobs)
                    /\ jobs'[j].kind = "suggestions" ) =>
                       /\ AllSettled(jobs[j])
                       /\ jobs'[j].images = SuccessfulImages(jobs[j])
                       /\ Len(jobs'[j].images) <= Len(jobs[j].results)
                       /\ alertMsg' # ALERT_GENERATE_FAILED
               /\ (jobs[j].kind = "single" /\ jobs' = RemoveAt(jobs, j)) =>
                       /\ AllSettled(jobs[j])
                       /\ state'.generatedImages = SuccessfulImages(jobs[j])
                       /\ alertMsg' # ALERT_GENERATE_FAILED ]_vars

C19_Witness ==
    /\ Len(jobs) = 1
    /\ jobs[1].kind = "suggestions"
    /\ jobs[1].results = <<"null", "image">>
    /\ jobs[1].images = <<imageOfRequest(<<"p">>, 1, 2, FALSE, 0)>>
    /\ state.isGenerating

\* C20, under SpecOutline: when the request of generatePresentationOutline fails,
\* the error reaches handleGenerateOutline, which reports the failure, sets
\* isGenerating to false and leaves step and presentationOutline as they were; no
\* empty or partial outline is installed.
C20_OutlineFailureIsReported ==
    [][\A j \in 1..Len(jobs) :
           ( /\ jobs[j].kind = "outline"
             /\ jobs[j].response.status = "error"
             /\ jobs' = RemoveAt(jobs, j) ) =>
               /\ alertMsg' = ALERT_OUTLINE_FAILED
               /\ ~state'.isGenerating
               /\ state'.step = state.step
               /\ state'.presentationOutline = state.presentationOutline]_vars

C20_Witness ==
    /\ alertMsg = ALERT_OUTLINE_FAILED
    /\ jobs = <<>>
    /\ upload = NoUpload
    /\ drive = <<>>
    /\ ~state.isGenerating
    /\ state.step = 1
    /\ state.presentationOutline = AiOutline(2)

----------------------------------------------------------------------------
(* Properties of uploadImagesToDriveInFolder, under SpecUpload. *)

NamesOf(images) == [i \in 1..Len(images) |-> images[i].name]

\* C18: the images are uploaded one at a time in input order: an image is attempted
\* only when every image before it has been uploaded.  The first failure ends the
\* call with the error of that upload: no later image is attempted, no list is
\* returned, and the files uploaded before stay in the folder.  When every upload
\* succeeds the returned list has the URL of the file of each image, in input order.
C18_UploadsInOrderStopAtFirstFailure ==
    /\ upload.calls = SubSeq(NamesOf(upload.images), 1, Len(upload.calls))
    /\ upload.inFlight # 0 =>
           /\ upload.inFlight = Len(upload.calls)
           /\ Len(upload.results) = Len(upload.calls) - 1
    /\ upload.inFlight = 0 /\ upload.status # "thrown" =>
           Len(upload.results) = Len(upload.calls)
    /\ upload.status = "thrown" =>
           /\ upload.inFlight = 0
           /\ Len(upload.calls) >= 1
           /\ upload.error.name = upload.images[Len(upload.calls)].name
           /\ upload.error.failure \in UploadFailures
           /\ Len(upload.results) = Len(upload.calls) - 1
           /\ drive = SubSeq(NamesOf(upload.images), 1, Len(upload.calls) - 1)
    /\ upload.status = "returned" =>
           /\ upload.error = NoError
           /\ Len(upload.results) = Len(upload.images)
           /\ drive = NamesOf(upload.images)
           /\ \A i \in 1..Len(upload.images) : upload.results[i] = fileUrlOf(i)

C18_Witness ==
    /\ upload.status = "thrown"
    /\ NamesOf(upload.images) = <<"a.png", "b.png", "a.png">>
    /\ upload.calls = <<"a.png", "b.png">>
    /\ upload.error = [name |-> "b.png", failure |-> "HTTP_403"]
    /\ drive = <<"a.png">>

----------------------------------------------------------------------------
(* Vocabulary of the properties of handleSaveToDrive and the Drive service. *)

\* the category an error of the Drive service is in, by its message
CategoryOfMessage(message) ==
    IF message = MSG_UNAUTHENTICATED THEN "unauthenticated"
    ELSE IF message \in {MSG_FOLDER_FORBIDDEN, MSG_UPLOAD_FORBIDDEN} THEN "forbidden"
    ELSE IF message = MSG_FOLDER_NOT_FOUND THEN "not-found"
    ELSE "generic"

\* the category the status of a response stands for
CategoryOfStatus(failure) ==
    IF failure = "HTTP_401" THEN "unauthenticated"
    ELSE IF failure = "HTTP_403" THEN "forbidden"
    ELSE IF failure = "HTTP_404" THEN "not-found"
    ELSE "generic"

\* the run of handleSaveToDrive ended in its catch block, for a failure of the call
\* op of the Drive service
SaveFailedIn(op) ==
    /\ save.pc = "idle"
    /\ save.error.failure # "none"
    /\ save.calls[Len(save.calls)].op = op

\* C21, under SpecSave: the error createFolderInDrive or uploadImageToDriveInFolder
\* throws for a response that is not OK is in the category of the status: 401
\* unauthenticated, 403 forbidden, 404 not-found, any other status generic.
C21_StatusFixesCategory ==
    (SaveFailedIn("createFolderInDrive") \/ SaveFailedIn("uploadImagesToDriveInFolder")) =>
        CategoryOfMessage(save.error.message) = CategoryOfStatus(save.error.failure)

----------------------------------------------------------------------------
(* Properties of handleOutlineChange. *)

\* the pages and keys at which two outlines of the same length differ
ChangedCells(before, after) ==
    { cell \in (1..Len(before)) \X OutlineFields :
          after[cell[1]][cell[2]] # before[cell[1]][cell[2]] }

\* C22, under SpecOutlineEdit: handleOutlineChange never changes a pageNumber, keeps
\* the length and the order of the outline, and changes at most one field, other
\* than pageNumber, of one page; nothing else of the state changes.
C22_OutlineChangeSetsOneField ==
    [][ state.step = 2 /\ state'.step = 2 =>
            /\ Len(state'.presentationOutline) = Len(state.presentationOutline)
            /\ LET changed == ChangedCells(state.presentationOutline,
                                           state'.presentationOutline)
               IN  /\ Cardinality(changed) <= 1
                   /\ \A cell \in changed :
                       /\ cell[2] # "pageNumber"
                       /\ state'.presentationOutline[cell[1]][cell[2]] = <<"x">>
            /\ state' = [state EXCEPT !.presentationOutline = state'.presentationOutline]
      ]_vars

C22_Witness ==
    /\ state.mode = PRESENTATION
    /\ state.step = 2
    /\ Len(state.presentationOutline) = 2
    /\ state.presentationOutline[1] = AiPage(1)
    /\ state.presentationOutline[2] = [AiPage(2) EXCEPT !.mood = <<"x">>, !.content = <<"x">>]

----------------------------------------------------------------------------
(* Properties of the state across the handlers. *)

\* C24, under SpecDeck: in presentation mode at step 3, the image at index i of
\* generatedImages was generated from the page at index i of presentationOutline
\* (its id carries the number of that page), whether or not some pages failed.
C24_ImageAtIndexIsOfPageAtIndex ==
    (state.mode = PRESENTATION /\ state.step = 3) =>
        \A i \in 1..Len(state.generatedImages) :
            /\ i <= Len(state.presentationOutline)
            /\ state.generatedImages[i].id[2] = state.presentationOutline[i].pageNumber

\* C27, under SpecOutline: in presentation mode at step 2 the outline has at least
\* one page.
C27_StepTwoHasOutline ==
    (state.mode = PRESENTATION /\ state.step = 2) => state.presentationOutline # <<>>

\* C25, under SpecSingle: when generateInfographics or generateSuggestions returns
\* to a handleGenerateSingle that was started before switchMode put the application
\* in presentation mode, the result is not installed: step and generatedImages stay
\* as switchMode left them.
C25_StaleResultNotInstalled ==
    [][ \A j \in 1..Len(jobs) :
            ( /\ state.mode = PRESENTATION
              /\ jobs[j].kind \in {"single", "suggestions"}
              /\ jobs' = RemoveAt(jobs, j) ) =>
                  /\ state'.step = state.step
                  /\ state'.generatedImages = state.generatedImages ]_vars

\* C26, under SpecSingle: selectedImageId is null or the id of an image of
\* generatedImages.
C26_SelectedImageIsGenerated ==
    \/ state.selectedImageId = NULL_ID
    \/ \E i \in 1..Len(state.generatedImages) :
           state.generatedImages[i].id = state.selectedImageId

----------------------------------------------------------------------------
(* Properties of handleEditImage. *)

\* the step is the return of editInfographic to handleEditImage for call j
IsEditReturn(j) == jobs[j].kind = "edit" /\ jobs' = RemoveAt(jobs, j)

\* C30, under SpecEdit: when editInfographic returns an image, handleEditImage puts
\* it in front of generatedImages, which keeps its images in their order and grows
\* by one, and selects it; when the edit fails or returns no image the list and the
\* selection stay; when no image is selected or the instruction is empty, no call of
\* editInfographic is made, isEditing is not raised and generatedImages changes only
\* by an earlier edit that returns or by switchMode.
C30_EditPrependsAndSelects ==
    [][ /\ \A j \in 1..Len(jobs) :
               IsEditReturn(j) =>
                   IF jobs[j].response.status = "image"
                   THEN /\ Len(state'.generatedImages) = Len(state.generatedImages) + 1
                        /\ state'.generatedImages[1] = jobs[j].made[1]
                        /\ SubSeq(state'.generatedImages, 2, Len(state'.generatedImages))
                               = state.generatedImages
                        /\ state'.selectedImageId = jobs[j].made[1].id
                   ELSE /\ state'.generatedImages = state.generatedImages
                        /\ state'.selectedImageId = state.selectedImageId
        /\ (findSelected(state) = 0 \/ local.editInstruction = <<>>) =>
               /\ Len(jobs') <= Len(jobs)
               /\ local'.isEditing => local.isEditing
               /\ state'.generatedImages # state.generatedImages =>
                      \/ \E j \in 1..Len(jobs) : IsEditReturn(j)
                      \/ state' = [INITIAL_STATE EXCEPT !.mode = state'.mode,
                                                        !.imageCount = state'.imageCount]
      ]_vars

C30_Witness ==
    /\ state.mode = SINGLE
    /\ Len(state.generatedImages) = 3
    /\ state.generatedImages[1].id = <<"edit", 2>>
    /\ state.generatedImages[2].id = <<"edit", 1>>
    /\ state.generatedImages[3].id = <<"gen", 0, 1>>
    /\ state.selectedImageId = <<"edit", 2>>
    /\ local.editInstruction = <<>>
    /\ ~local.isEditing

----------------------------------------------------------------------------
(* Properties of handleSaveToDrive. *)

\* the category of a failure of a call of the Drive service
CategoryOfFailure(failure) ==
    IF failure \in {"HTTP_403", "access_denied"} THEN "forbidden"
    ELSE IF failure = "HTTP_401" THEN "unauthenticated"
    ELSE IF failure = "HTTP_404" THEN "not-found"
    ELSE "generic"

\* the message shown for an error: a fixed text for an authorization failure, one for
\* an authentication failure, the message of the error for the other categories
MessageForCategory(error) ==
    IF CategoryOfFailure(error.failure) = "forbidden" THEN FRIENDLY_KENGEN
    ELSE IF CategoryOfFailure(error.failure) = "unauthenticated" THEN FRIENDLY_NINSHO
    ELSE error.message

\* the step is a click that starts a run of handleSaveToDrive
IsNewSaveAttempt ==
    /\ save.pc = "idle"
    /\ ~local.isSavingToDrive
    /\ local'.isSavingToDrive
    /\ save'.pc = "isSignedIn"
    /\ save'.error.failure = "none"

C28_FolderFirstThenUploads ==
    [][ /\ Len(upload'.calls) > Len(upload.calls) =>
               /\ save.pc = "uploadImagesToDriveInFolder"
               /\ save.folderId \in 1..google.folders
               /\ save.calls[Len(save.calls) - 1].op = "createFolderInDrive"
               /\ upload'.targets[Len(upload'.targets)] = save.folderId
               /\ Len(upload'.targets) = Len(upload'.calls)
        /\ ( /\ save'.pc = "idle"
             /\ save'.error.failure # "none"
             /\ save'.calls[Len(save'.calls)].op \in {"signInToGoogle", "createFolderInDrive"} )
               => /\ upload'.calls = <<>>
                  /\ save'.folderId = 0
        /\ (save.pc = "idle" /\ (state.generatedImages = <<>> \/ ~google.clientId)) =>
               /\ save' = save
               /\ upload' = upload
               /\ google' = google
               /\ ~local'.isSavingToDrive
      ]_vars

C28_Witness ==
    /\ save.pc = "idle"
    /\ save.folderId = 2
    /\ google.folders = 2
    /\ upload.status = "returned"
    /\ upload.targets = <<2, 2>>
    /\ Len(drive) >= 3
    /\ alertMsg = ALERT_SAVED

----------------------------------------------------------------------------
(* Properties of the busy flags. *)

\* the step removes a call of the generation service made by a handler of kinds
ReturnsTo(kinds) ==
    \E j \in 1..Len(jobs) : jobs[j].kind \in kinds /\ jobs' = RemoveAt(jobs, j)

\* C29, under SpecBusy: the continuation that ends a handler lowers the flag the
\* handler raised, whether the calls succeeded or failed (isGenerating for the three
\* generation handlers, isEditing for handleEditImage, isSavingToDrive for
\* handleSaveToDrive), and, every awaited call settling, a flag that is raised is
\* eventually lowered.
C29_BusyFlagsAreLowered ==
    /\ [][ /\ ReturnsTo({"single", "suggestions", "outline", "deck"}) =>
                  ~state'.isGenerating
           /\ ReturnsTo({"edit"}) => ~local'.isEditing
           /\ (save.pc # "idle" /\ save'.pc = "idle") => ~local'.isSavingToDrive
           /\ (local.isSavingToDrive /\ ~local'.isSavingToDrive) => save'.pc = "idle"
         ]_vars
    /\ state.isGenerating ~> ~state.isGenerating
    /\ local.isEditing ~> ~local.isEditing
    /\ local.isSavingToDrive ~> ~local.isSavingToDrive

C29_Witness ==
    /\ jobs = <<>>
    /\ save.pc = "idle"
    /\ save.error.failure = "HTTP_401"
    /\ alertMsg = ALERT_EDIT_FAILED
    /\ Len(state.generatedImages) = 1
    /\ ~state.isGenerating
    /\ ~local.isEditing
    /\ ~local.isSavingToDrive

====
